---- MODULE Spec2Model ----
(***************************************************************************)
(* QuickBooks token lifecycle of the Pipedrive-QuickBooks bridge.          *)
(*                                                                         *)
(* One tenant row of the users table, the OAuth provider that rotates the  *)
(* token pair on every accepted refresh, two route handlers that each run  *)
(* getUser followed by makeQBApiCall, and the payment poller running       *)
(* checkPendingInvoices / refreshQBToken against the same row.  Every      *)
(* await of the JavaScript source is a separate step, so the handlers and  *)
(* the poller interleave exactly where the event loop lets them.           *)
(*                                                                         *)
(* Time is counted in minutes.  Tokens are numbers: AT(g) / RT(g) are the  *)
(* access / refresh token of provider generation g, None (0) is a missing  *)
(* value (null, undefined, empty string alike: the code tests them with !).*)
(***************************************************************************)
EXTENDS Integers, Sequences, FiniteSets, TLC

\* ------------------------------------------------------------------ bounds
MaxNow ==
  6
MaxGen ==
  3
MaxPolls ==
  1

\* ------------------------------------------------------- program constants
LookaheadMin ==
  10
PollerLookaheadMin ==
  5
ExpiresInMin ==
  60
StartNow ==
  5
None ==
  0
ATBase ==
  10
RTBase ==
  20
EncOffset ==
  100

Handlers ==
  {"h1", "h2"}
Poller ==
  "poller"
Procs ==
  Handlers \cup {Poller}

AT(g) ==
  ATBase + g
RT(g) ==
  RTBase + g

\* ------------------------------------------------------------- encryption
\* getEncryptionKey: the secret must be set and at least 16 characters long
MinSecretLen ==
  16

\* the secrets a deployment can have: none, a short one, a long enough one
SecretLens ==
  <<0, MinSecretLen - 1, MinSecretLen>>

getEncryptionKeyThrows(secretLen) ==
  secretLen = 0 \/ secretLen < MinSecretLen

\* encrypt: null for a falsy input, otherwise an iv:tag:ciphertext envelope
\* (a value in the envelope range, distinct from every plaintext).
encryptKeepsPlaintext(text) ==
  text

encrypt(text) ==
  IF text = None THEN None ELSE text + EncOffset

\* decrypt: null for a falsy input, the input itself when it is not a
\* three-segment envelope, the plaintext otherwise.
decrypt(encryptedData) ==
  IF encryptedData = None THEN None
  ELSE IF encryptedData < EncOffset THEN encryptedData
  ELSE encryptedData - EncOffset

\* ------------------------------------------------------- credential store
\* setUser: the single UPDATE statement; every column is written from the
\* data object, the two token columns as envelopes.
setUserDropsRefreshToken(data) ==
  [qb_access_token  |-> encrypt(data.qb_access_token),
   qb_refresh_token |-> None,
   qb_expires_at    |-> data.qb_expires_at]

setUser(data) ==
  [qb_access_token  |-> encrypt(data.qb_access_token),
   qb_refresh_token |-> encrypt(data.qb_refresh_token),
   qb_expires_at    |-> data.qb_expires_at]

rowToUserData(row) ==
  [qb_access_token  |-> decrypt(row.qb_access_token),
   qb_refresh_token |-> decrypt(row.qb_refresh_token),
   qb_expires_at    |-> row.qb_expires_at]

\* --------------------------------------------------------- expiry checks
tokenNeedsRefreshInverted(userData, t) ==
  IF userData.qb_expires_at = None
  THEN userData.qb_refresh_token # None
  ELSE userData.qb_expires_at > t + LookaheadMin

tokenNeedsRefresh(userData, t) ==
  IF userData.qb_expires_at = None
  THEN userData.qb_refresh_token # None
  ELSE userData.qb_expires_at < t + LookaheadMin

pollerNeedsRefresh(userData, t) ==
  userData.qb_expires_at = None
    \/ userData.qb_expires_at < t + PollerLookaheadMin

\* refreshAndSaveToken's soft guard: a refresh is attempted only with a
\* refresh token at hand.
hasRefreshTokenUnchecked(userData) ==
  TRUE

hasRefreshToken(userData) ==
  userData.qb_refresh_token # None

\* the record refreshAndSaveToken / refreshQBToken build from the response
updatedUserData(userData, tokens, t) ==
  [userData EXCEPT !.qb_access_token  = tokens.access_token,
                   !.qb_refresh_token = tokens.refresh_token,
                   !.qb_expires_at    = t + tokens.expires_in]

\* ------------------------------------------------------ error handling
\* What a failed refresh request looks like to the code: sig says that the
\* serialised error carries invalid_grant / expired / revoked, kw that the
\* error message contains invalid / expired / revoked.
RefreshErrors ==
  { [class |-> "rejected",  sig |-> TRUE,  kw |-> FALSE],
    [class |-> "transient", sig |-> FALSE, kw |-> FALSE] }

StoreError ==
  [class |-> "store", sig |-> FALSE, kw |-> FALSE]

\* quickbooks.js refreshToken, catch block: a rejection becomes the custom
\* "has expired or been revoked" error, anything else is rethrown as is.
refreshTokenRethrows(error) ==
  error

refreshToken(error) ==
  IF error.sig
  THEN [class |-> error.class, sig |-> FALSE, kw |-> TRUE]
  ELSE error

\* refreshAndSaveToken, catch block: the message decides between the
\* reconnect error and rethrowing the original error.
refreshAndSaveTokenError(error) ==
  IF error.kw THEN "reauth" ELSE error.class

\* makeQBApiCall line 413: only a 401 starts the reactive refresh.
isUnauthorized(statusCode) ==
  statusCode = "401"

ApiOutcomes ==
  {"ok", "401", "err"}

\* no call of encrypt or decrypt made yet
NoCall ==
  [op |-> "none", key |-> 0, text |-> << >>, data |-> << >>,
   value |-> << >>, raised |-> FALSE]

\* no request is calling the CRM; the CRM honours the pair it first issued
NoCrmCall ==
  [pc |-> "idle", userData |-> [null |-> TRUE], actualUserId |-> << >>,
   retryCount |-> 0, trace |-> << >>, result |-> "none", calls |-> 0,
   gen |-> 0, live |-> TRUE, refreshed |-> FALSE]

\* the invoices QuickBooks issues and the poller cycles that can overlap
InvoiceIds ==
  {1, 2}

Cycles ==
  {"c1", "c2"}

NoInvoice ==
  [created |-> FALSE, dor |-> FALSE, positive |-> FALSE, balance |-> 0,
   doc |-> << >>]

IdleCycle ==
  [pc |-> "idle", list |-> << >>]

IdleRequest ==
  [pc |-> "idle", invoiceId |-> 0, by |-> "none"]

\* no invoice was created, nothing is pending, no cycle is running
NoShip ==
  [qb |-> [id \in InvoiceIds |-> NoInvoice], pending |-> << >>,
   mappings |-> [id \in InvoiceIds |-> 0], orders |-> << >>, sent |-> {},
   paidSeen |-> {}, cyc |-> [c \in Cycles |-> IdleCycle],
   req |-> IdleRequest, failures |-> 0]

\* ---------------------------------------------------------------- state
VARIABLES
  store,            \* the tenant's row of the users table
  now,              \* wall clock, minutes
  provGen,          \* generation of the pair the provider currently honours
  pc,               \* position of each handler / the poller
  userData,         \* what getUser returned to the process
  currentUserData,  \* makeQBApiCall's currentUserData / the poller's userData
  refreshedData,    \* updatedUserData built from the refresh response
  trace,            \* what the handler's current call has done so far
  result,           \* how the handler's call ended
  polls,            \* poller cycles started
  users,            \* the users table, one row per pipedrive_user_id
  secret,           \* length of SESSION_SECRET || ENCRYPTION_KEY, 0 if unset
  server,           \* the server process: starting, listening, exited
  cipher,           \* the last call of encrypt / decrypt and what it returned
  crm,              \* a request calling the CRM and the CRM's token state
  ship              \* invoices, pending entries, orders and poller cycles

vars ==
  <<store, now, provGen, pc, userData, currentUserData, refreshedData,
    trace, result, polls, users, secret, server, cipher, crm, ship>>

tokenVars ==
  <<store, now, provGen, pc, userData, currentUserData, refreshedData,
    trace, result, polls>>

storeVars ==
  <<users>>

bootVars ==
  <<secret, server>>

cipherVars ==
  <<cipher>>

crmVars ==
  <<crm>>

shipVars ==
  <<ship>>

Ev(e, tok, out) ==
  [ev |-> e, tok |-> tok, out |-> out]

\* Where the expiry of a record lies at time t, as far as the scenarios
\* tell it apart: missing, already past, exactly 2 minutes ahead, otherwise
\* inside the lookahead, exactly at it, beyond it.
ExpiryAt(ud, t) ==
  IF ud.qb_expires_at = None THEN "unknown"
  ELSE IF ud.qb_expires_at < t THEN "past"
  ELSE IF ud.qb_expires_at = t + 2 THEN "in2min"
  ELSE IF ud.qb_expires_at < t + LookaheadMin THEN "soon"
  ELSE IF ud.qb_expires_at = t + LookaheadMin THEN "in10min"
  ELSE "later"

NoUserData ==
  [qb_access_token |-> None, qb_refresh_token |-> None, qb_expires_at |-> None]

\* The rows a tenant can have after the OAuth callback or a legacy import:
\* first-generation tokens, the refresh token possibly missing, the expiry
\* missing, past, 2 minutes ahead, exactly at the lookahead, or beyond it.
InitExpiries ==
  {None, StartNow - 2, StartNow + 2, StartNow + LookaheadMin,
   StartNow + LookaheadMin + 2}

InitRefreshTokens ==
  {None, RT(1)}

Init ==
  /\ \E rt \in InitRefreshTokens, exp \in InitExpiries :
       store = [qb_access_token  |-> encrypt(AT(1)),
                qb_refresh_token |-> encrypt(rt),
                qb_expires_at    |-> exp]
  /\ now = StartNow
  /\ provGen = 1
  /\ pc = [p \in Procs |-> "idle"]
  /\ userData = [p \in Procs |-> NoUserData]
  /\ currentUserData = [p \in Procs |-> NoUserData]
  /\ refreshedData = [p \in Procs |-> NoUserData]
  /\ trace = [p \in Procs |-> << >>]
  /\ result = [p \in Procs |-> "none"]
  /\ polls = 0
  /\ users = {}
  /\ secret = SecretLens[3]
  /\ server = "listening"
  /\ cipher = NoCall
  /\ crm = NoCrmCall
  /\ ship = NoShip


\* ------------------------------------------------------------- provider
\* The provider honours only the refresh token of its current generation
\* and replaces the pair when it accepts one (refresh token rotation).
providerAccepts(refreshTokenValue) ==
  refreshTokenValue = RT(provGen) /\ provGen < MaxGen

issuedTokens(g) ==
  [access_token |-> AT(g), refresh_token |-> RT(g), expires_in |-> ExpiresInMin]

Append2(s, a, b) ==
  Append(Append(s, a), b)

\* ------------------------------------------------- route handler actions
\* The route reads the tenant's record before it calls makeQBApiCall.
getUser(h) ==
  /\ pc[h] = "idle"
  /\ userData' = [userData EXCEPT ![h] = rowToUserData(store)]
  /\ pc' = [pc EXCEPT ![h] = "start"]
  /\ UNCHANGED <<store, now, provGen, currentUserData, refreshedData, trace,
                 result, polls>>
  /\ UNCHANGED <<storeVars, bootVars, cipherVars, crmVars, shipVars>>

\* makeQBApiCall up to its first await: the proactive expiry check and,
\* when it says so, refreshAndSaveToken up to qbAuth.refreshToken.
makeQBApiCall(h) ==
  /\ pc[h] = "start"
  /\ currentUserData' = [currentUserData EXCEPT ![h] = userData[h]]
  /\ LET ud == userData[h]
         needs == tokenNeedsRefresh(ud, now)
         chk == Ev("check", None, ExpiryAt(ud, now))
     IN IF needs /\ hasRefreshToken(ud)
        THEN /\ trace' = [trace EXCEPT ![h] =
                   << chk,
                      Ev("refreshReq", ud.qb_refresh_token, "proactive") >>]
             /\ pc' = [pc EXCEPT ![h] = "proWait"]
        ELSE /\ trace' = [trace EXCEPT ![h] = << chk >>]
             /\ pc' = [pc EXCEPT ![h] = "call"]
  /\ UNCHANGED <<store, now, provGen, userData, refreshedData, result, polls>>
  /\ UNCHANGED <<storeVars, bootVars, cipherVars, crmVars, shipVars>>

\* the proactive refresh request is answered with a new pair, from which
\* refreshAndSaveToken builds updatedUserData
proactiveRefreshOk(h) ==
  /\ pc[h] = "proWait"
  /\ providerAccepts(currentUserData[h].qb_refresh_token)
  /\ provGen' = provGen + 1
  /\ refreshedData' = [refreshedData EXCEPT ![h] =
       updatedUserData(currentUserData[h], issuedTokens(provGen + 1), now)]
  /\ trace' = [trace EXCEPT ![h] =
                 Append(@, Ev("refreshResp", AT(provGen + 1), "ok"))]
  /\ pc' = [pc EXCEPT ![h] = "proSave"]
  /\ UNCHANGED <<store, now, userData, currentUserData, result, polls>>
  /\ UNCHANGED <<storeVars, bootVars, cipherVars, crmVars, shipVars>>

proactiveRefreshFailsDropsTokens(h) ==
  /\ pc[h] = "proWait"
  /\ \E error \in RefreshErrors :
       trace' = [trace EXCEPT ![h] =
                   Append(@, Ev("refreshResp", None, error.class))]
  /\ currentUserData' = [currentUserData EXCEPT ![h] = NoUserData]
  /\ pc' = [pc EXCEPT ![h] = "call"]
  /\ UNCHANGED <<store, now, provGen, userData, refreshedData, result, polls>>
  /\ UNCHANGED <<storeVars, bootVars, cipherVars, crmVars, shipVars>>

\* the proactive refresh request fails; refreshAndSaveToken throws and
\* makeQBApiCall's inner catch goes on with the existing token
proactiveRefreshFails(h) ==
  /\ pc[h] = "proWait"
  /\ \E error \in RefreshErrors :
       trace' = [trace EXCEPT ![h] =
                   Append(@, Ev("refreshResp", None, error.class))]
  /\ pc' = [pc EXCEPT ![h] = "call"]
  /\ UNCHANGED <<store, now, provGen, userData, currentUserData,
                 refreshedData, result, polls>>
  /\ UNCHANGED <<storeVars, bootVars, cipherVars, crmVars, shipVars>>

\* refreshAndSaveToken: await setUser(userId, updatedUserData) succeeds
proactiveSaveOk(h) ==
  /\ pc[h] = "proSave"
  /\ store' = setUser(refreshedData[h])
  /\ currentUserData' = [currentUserData EXCEPT ![h] = refreshedData[h]]
  /\ trace' = [trace EXCEPT ![h] =
       Append(@, Ev("setUser", refreshedData[h].qb_access_token, "ok"))]
  /\ pc' = [pc EXCEPT ![h] = "call"]
  /\ UNCHANGED <<now, provGen, userData, refreshedData, result, polls>>
  /\ UNCHANGED <<storeVars, bootVars, cipherVars, crmVars, shipVars>>

\* setUser throws: nothing is written, the inner catch goes on
proactiveSaveFails(h) ==
  /\ pc[h] = "proSave"
  /\ trace' = [trace EXCEPT ![h] =
       Append(@, Ev("setUser", None, StoreError.class))]
  /\ pc' = [pc EXCEPT ![h] = "call"]
  /\ UNCHANGED <<store, now, provGen, userData, currentUserData,
                 refreshedData, result, polls>>
  /\ UNCHANGED <<storeVars, bootVars, cipherVars, crmVars, shipVars>>

\* apiCallFunction(qbClient, currentUserData), and on a 401 the reactive
\* refreshAndSaveToken up to qbAuth.refreshToken
apiCall(h) ==
  /\ pc[h] = "call"
  /\ \E statusCode \in ApiOutcomes :
       LET ud == currentUserData[h]
           call == Ev("api", ud.qb_access_token, statusCode)
       IN IF ~isUnauthorized(statusCode)
          THEN /\ trace' = [trace EXCEPT ![h] = Append(@, call)]
               /\ result' = [result EXCEPT ![h] =
                    IF statusCode = "ok" THEN "ok" ELSE "apiError"]
               /\ pc' = [pc EXCEPT ![h] = "done"]
          ELSE IF hasRefreshToken(ud)
          THEN /\ trace' = [trace EXCEPT ![h] =
                    Append2(@, call,
                            Ev("refreshReq", ud.qb_refresh_token, "reactive"))]
               /\ pc' = [pc EXCEPT ![h] = "reWait"]
               /\ UNCHANGED result
          ELSE /\ trace' = [trace EXCEPT ![h] = Append(@, call)]
               /\ result' = [result EXCEPT ![h] = "sessionExpired"]
               /\ pc' = [pc EXCEPT ![h] = "done"]
  /\ UNCHANGED <<store, now, provGen, userData, currentUserData,
                 refreshedData, polls>>
  /\ UNCHANGED <<storeVars, bootVars, cipherVars, crmVars, shipVars>>

reactiveRefreshOk(h) ==
  /\ pc[h] = "reWait"
  /\ providerAccepts(currentUserData[h].qb_refresh_token)
  /\ provGen' = provGen + 1
  /\ refreshedData' = [refreshedData EXCEPT ![h] =
       updatedUserData(currentUserData[h], issuedTokens(provGen + 1), now)]
  /\ trace' = [trace EXCEPT ![h] =
                 Append(@, Ev("refreshResp", AT(provGen + 1), "ok"))]
  /\ pc' = [pc EXCEPT ![h] = "reSave"]
  /\ UNCHANGED <<store, now, userData, currentUserData, result, polls>>
  /\ UNCHANGED <<storeVars, bootVars, cipherVars, crmVars, shipVars>>

\* the reactive refresh fails: refreshToken and refreshAndSaveToken
\* classify the error and the outer handler rethrows its message
reactiveRefreshFails(h) ==
  /\ pc[h] = "reWait"
  /\ \E error \in RefreshErrors :
       /\ trace' = [trace EXCEPT ![h] =
                      Append(@, Ev("refreshResp", None, error.class))]
       /\ result' = [result EXCEPT ![h] =
                      refreshAndSaveTokenError(refreshToken(error))]
  /\ pc' = [pc EXCEPT ![h] = "done"]
  /\ UNCHANGED <<store, now, provGen, userData, currentUserData,
                 refreshedData, polls>>
  /\ UNCHANGED <<storeVars, bootVars, cipherVars, crmVars, shipVars>>

reactiveSaveOk(h) ==
  /\ pc[h] = "reSave"
  /\ store' = setUser(refreshedData[h])
  /\ trace' = [trace EXCEPT ![h] =
       Append(@, Ev("setUser", refreshedData[h].qb_access_token, "ok"))]
  /\ pc' = [pc EXCEPT ![h] = "retry"]
  /\ UNCHANGED <<now, provGen, userData, currentUserData, refreshedData,
                 result, polls>>
  /\ UNCHANGED <<storeVars, bootVars, cipherVars, crmVars, shipVars>>

reactiveSaveFails(h) ==
  /\ pc[h] = "reSave"
  /\ trace' = [trace EXCEPT ![h] =
       Append(@, Ev("setUser", None, StoreError.class))]
  /\ result' = [result EXCEPT ![h] = refreshAndSaveTokenError(StoreError)]
  /\ pc' = [pc EXCEPT ![h] = "done"]
  /\ UNCHANGED <<store, now, provGen, userData, currentUserData,
                 refreshedData, polls>>
  /\ UNCHANGED <<storeVars, bootVars, cipherVars, crmVars, shipVars>>

retryApiCallRefreshesAgain(h) ==
  /\ pc[h] = "retry"
  /\ \E statusCode \in ApiOutcomes :
       LET call == Ev("api", refreshedData[h].qb_access_token, statusCode)
       IN IF isUnauthorized(statusCode)
          THEN /\ trace' = [trace EXCEPT ![h] =
                    Append2(@, call,
                            Ev("refreshReq", refreshedData[h].qb_refresh_token,
                               "reactive"))]
               /\ currentUserData' = [currentUserData EXCEPT ![h] =
                                        refreshedData[h]]
               /\ pc' = [pc EXCEPT ![h] = "reWait"]
               /\ UNCHANGED result
          ELSE /\ trace' = [trace EXCEPT ![h] = Append(@, call)]
               /\ result' = [result EXCEPT ![h] =
                    IF statusCode = "ok" THEN "ok" ELSE "apiError"]
               /\ pc' = [pc EXCEPT ![h] = "done"]
               /\ UNCHANGED currentUserData
  /\ UNCHANGED <<store, now, provGen, userData, refreshedData, polls>>
  /\ UNCHANGED <<storeVars, bootVars, cipherVars, crmVars, shipVars>>

\* the one retry with the refreshed client; whatever it throws is rethrown
retryApiCall(h) ==
  /\ pc[h] = "retry"
  /\ \E statusCode \in ApiOutcomes :
       /\ trace' = [trace EXCEPT ![h] =
            Append(@, Ev("api", refreshedData[h].qb_access_token, statusCode))]
       /\ result' = [result EXCEPT ![h] =
            IF statusCode = "ok" THEN "ok"
            ELSE IF isUnauthorized(statusCode) THEN "retryUnauthorized"
            ELSE "apiError"]
  /\ pc' = [pc EXCEPT ![h] = "done"]
  /\ UNCHANGED <<store, now, provGen, userData, currentUserData,
                 refreshedData, polls>>
  /\ UNCHANGED <<storeVars, bootVars, cipherVars, crmVars, shipVars>>

\* ------------------------------------------------ payment poller actions
\* checkPendingInvoices: let userData = await getUser(userId)
pollerGetUser ==
  /\ pc[Poller] = "idle"
  /\ polls < MaxPolls
  /\ polls' = polls + 1
  /\ userData' = [userData EXCEPT ![Poller] = rowToUserData(store)]
  /\ pc' = [pc EXCEPT ![Poller] = "check"]
  /\ UNCHANGED <<store, now, provGen, currentUserData, refreshedData, trace,
                 result>>
  /\ UNCHANGED <<storeVars, bootVars, cipherVars, crmVars, shipVars>>

\* the 5 minute expiry check and refreshQBToken up to qbClient.refresh():
\* the request carries whatever refresh token the record holds.  Without
\* one the OAuth client either refuses locally or sends the empty request.
checkPendingInvoices ==
  /\ pc[Poller] = "check"
  /\ currentUserData' = [currentUserData EXCEPT ![Poller] = userData[Poller]]
  /\ IF pollerNeedsRefresh(userData[Poller], now)
     THEN \/ pc' = [pc EXCEPT ![Poller] = "pWait"]
          \/ /\ ~hasRefreshToken(userData[Poller])
             /\ pc' = [pc EXCEPT ![Poller] = "idle"]
     ELSE pc' = [pc EXCEPT ![Poller] = "pCall"]
  /\ UNCHANGED <<store, now, provGen, userData, refreshedData, trace, result,
                 polls>>
  /\ UNCHANGED <<storeVars, bootVars, cipherVars, crmVars, shipVars>>

pollerRefreshOk ==
  /\ pc[Poller] = "pWait"
  /\ providerAccepts(currentUserData[Poller].qb_refresh_token)
  /\ provGen' = provGen + 1
  /\ refreshedData' = [refreshedData EXCEPT ![Poller] =
       updatedUserData(currentUserData[Poller], issuedTokens(provGen + 1), now)]
  /\ pc' = [pc EXCEPT ![Poller] = "pSave"]
  /\ UNCHANGED <<store, now, userData, currentUserData, trace, result, polls>>
  /\ UNCHANGED <<storeVars, bootVars, cipherVars, crmVars, shipVars>>

\* refreshQBToken throws: the entry is dropped or its retry count raised,
\* and the loop moves on
pollerRefreshFails ==
  /\ pc[Poller] = "pWait"
  /\ pc' = [pc EXCEPT ![Poller] = "idle"]
  /\ UNCHANGED <<store, now, provGen, userData, currentUserData,
                 refreshedData, trace, result, polls>>
  /\ UNCHANGED <<storeVars, bootVars, cipherVars, crmVars, shipVars>>

\* refreshQBToken: await setUser(userId, updatedUserData)
pollerSaveOk ==
  /\ pc[Poller] = "pSave"
  /\ store' = setUser(refreshedData[Poller])
  /\ currentUserData' = [currentUserData EXCEPT ![Poller] =
                           refreshedData[Poller]]
  /\ pc' = [pc EXCEPT ![Poller] = "pCall"]
  /\ UNCHANGED <<now, provGen, userData, refreshedData, trace, result, polls>>
  /\ UNCHANGED <<storeVars, bootVars, cipherVars, crmVars, shipVars>>

pollerSaveFails ==
  /\ pc[Poller] = "pSave"
  /\ pc' = [pc EXCEPT ![Poller] = "idle"]
  /\ UNCHANGED <<store, now, provGen, userData, currentUserData,
                 refreshedData, trace, result, polls>>
  /\ UNCHANGED <<storeVars, bootVars, cipherVars, crmVars, shipVars>>

\* the invoice GET with the bearer token of userData; whatever the answer,
\* the token state is left alone (a 401 only raises the retry count)
pollerApiCall ==
  /\ pc[Poller] = "pCall"
  /\ pc' = [pc EXCEPT ![Poller] = "idle"]
  /\ UNCHANGED <<store, now, provGen, userData, currentUserData,
                 refreshedData, trace, result, polls>>
  /\ UNCHANGED <<storeVars, bootVars, cipherVars, crmVars, shipVars>>

\* ---------------------------------------------------------------- clock
Tick ==
  /\ now < MaxNow
  /\ now' = now + 1
  /\ UNCHANGED <<store, provGen, pc, userData, currentUserData,
                 refreshedData, trace, result, polls>>
  /\ UNCHANGED <<storeVars, bootVars, cipherVars, crmVars, shipVars>>

Next ==
  \/ \E h \in Handlers : getUser(h)
  \/ \E h \in Handlers : makeQBApiCall(h)
  \/ \E h \in Handlers : proactiveRefreshOk(h)
  \/ \E h \in Handlers : proactiveRefreshFails(h)
  \/ \E h \in Handlers : proactiveSaveOk(h)
  \/ \E h \in Handlers : proactiveSaveFails(h)
  \/ \E h \in Handlers : apiCall(h)
  \/ \E h \in Handlers : reactiveRefreshOk(h)
  \/ \E h \in Handlers : reactiveRefreshFails(h)
  \/ \E h \in Handlers : reactiveSaveOk(h)
  \/ \E h \in Handlers : reactiveSaveFails(h)
  \/ \E h \in Handlers : retryApiCall(h)
  \/ pollerGetUser
  \/ checkPendingInvoices
  \/ pollerRefreshOk
  \/ pollerRefreshFails
  \/ pollerSaveOk
  \/ pollerSaveFails
  \/ pollerApiCall
  \/ Tick

Spec ==
  Init /\ [][Next]_vars


\* ------------------------------------------- a call that waits for answers
\* The steps of one makeQBApiCall that the server takes by itself or that
\* the database and the QuickBooks API answer.  The answer to
\* oauthClient.refresh() is not among them: refreshToken awaits it without
\* a timeout, so the call moves on only when the provider answers.
callProceeds(h) ==
  \/ makeQBApiCall(h)
  \/ proactiveSaveOk(h)
  \/ proactiveSaveFails(h)
  \/ apiCall(h)
  \/ reactiveSaveOk(h)
  \/ reactiveSaveFails(h)
  \/ retryApiCall(h)

NextCall ==
  \/ \E h \in Handlers : getUser(h)
  \/ \E h \in Handlers : makeQBApiCall(h)
  \/ \E h \in Handlers : proactiveRefreshOk(h)
  \/ \E h \in Handlers : proactiveRefreshFails(h)
  \/ \E h \in Handlers : proactiveSaveOk(h)
  \/ \E h \in Handlers : proactiveSaveFails(h)
  \/ \E h \in Handlers : apiCall(h)
  \/ \E h \in Handlers : reactiveRefreshOk(h)
  \/ \E h \in Handlers : reactiveRefreshFails(h)
  \/ \E h \in Handlers : reactiveSaveOk(h)
  \/ \E h \in Handlers : reactiveSaveFails(h)
  \/ \E h \in Handlers : retryApiCall(h)

SpecCall ==
  Init /\ [][NextCall]_vars /\ \A h \in Handlers : WF_vars(callProceeds(h))

\* ------------------------------------------ routes that build their client
\* POST /api/create-customer: createQBClient reads the record, refuses
\* without an access token and otherwise hands the stored token to the
\* OAuth client; the route sends its request with that client and answers
\* 500 with whatever the request throws.
createCustomer(h) ==
  /\ pc[h] = "idle"
  /\ userData' = [userData EXCEPT ![h] = rowToUserData(store)]
  /\ IF rowToUserData(store).qb_access_token = None
     THEN /\ trace' = [trace EXCEPT ![h] = << >>]
          /\ result' = [result EXCEPT ![h] = "notConnected"]
     ELSE \E statusCode \in ApiOutcomes :
            /\ trace' = [trace EXCEPT ![h] =
                 << Ev("api", rowToUserData(store).qb_access_token, statusCode) >>]
            /\ result' = [result EXCEPT ![h] =
                 IF statusCode = "ok" THEN "ok" ELSE "apiError"]
  /\ pc' = [pc EXCEPT ![h] = "done"]
  /\ UNCHANGED <<store, now, provGen, currentUserData, refreshedData, polls>>
  /\ UNCHANGED <<storeVars, bootVars, cipherVars, crmVars, shipVars>>

NextRoutes ==
  \/ NextCall
  \/ \E h \in Handlers : createCustomer(h)

SpecRoutes ==
  Init /\ [][NextRoutes]_vars

\* ------------------------------------------ two invocations in one request
\* POST /api/invoices after the invoice was created: the send-email request
\* is a second makeQBApiCall(actualUserId, userData, ...) with the userData
\* the route read at its start.
sendInvoiceEmail(h) ==
  /\ pc[h] = "done"
  /\ result[h] = "ok"
  /\ Cardinality({i \in 1..Len(trace[h]) : trace[h][i].ev = "check"}) = 1
  /\ currentUserData' = [currentUserData EXCEPT ![h] = userData[h]]
  /\ IF tokenNeedsRefresh(userData[h], now) /\ hasRefreshToken(userData[h])
     THEN /\ trace' = [trace EXCEPT ![h] =
                Append2(@, Ev("check", None, ExpiryAt(userData[h], now)),
                        Ev("refreshReq", userData[h].qb_refresh_token,
                           "proactive"))]
          /\ pc' = [pc EXCEPT ![h] = "proWait"]
     ELSE /\ trace' = [trace EXCEPT ![h] =
                Append(@, Ev("check", None, ExpiryAt(userData[h], now)))]
          /\ pc' = [pc EXCEPT ![h] = "call"]
  /\ result' = [result EXCEPT ![h] = "none"]
  /\ UNCHANGED <<store, now, provGen, userData, refreshedData, polls>>
  /\ UNCHANGED <<storeVars, bootVars, cipherVars, crmVars, shipVars>>

NextInvoice ==
  \/ NextCall
  \/ \E h \in Handlers : sendInvoiceEmail(h)

SpecInvoice ==
  Init /\ [][NextInvoice]_vars

\* ------------------------------------------------------ reading a trace
Indices(h, e) ==
  {i \in 1..Len(trace[h]) : trace[h][i].ev = e}

RefreshReqs(h) ==
  Indices(h, "refreshReq")

ApiCalls(h) ==
  Indices(h, "api")

Saves(h) ==
  {i \in Indices(h, "setUser") : trace[h][i].out = "ok"}

Started(h) ==
  Len(trace[h]) >= 1

\* where the expiry lay when the current call made its proactive check
ExpiryAtStart(h) ==
  trace[h][1].out

SawExpiring(h) ==
  /\ Started(h)
  /\ \/ ExpiryAtStart(h) \in {"past", "in2min", "soon"}
     \/ ExpiryAtStart(h) = "unknown" /\ userData[h].qb_refresh_token # None

InFlight ==
  {p \in Procs : pc[p] \in {"proWait", "reWait", "pWait"}}

StoredPair ==
  rowToUserData(store)

\* ------------------------------------------------------------------- C1
\* C1: when two makeQBApiCall invocations for the same tenant run
\* concurrently and both see a token that tokenNeedsRefresh reports as
\* expiring, exactly one refresh request is sent to the provider, and both
\* invocations issue their API call with the newly issued access token.
C1_OneRefreshForConcurrentCalls ==
  \A h1 \in Handlers, h2 \in Handlers :
    ( /\ h1 # h2
      /\ SawExpiring(h1) /\ SawExpiring(h2)
      /\ userData[h1] = userData[h2]
      /\ hasRefreshToken(userData[h1]) )
    => /\ Cardinality(RefreshReqs(h1)) + Cardinality(RefreshReqs(h2)) <= 1
       /\ \A h \in {h1, h2} : \A i \in ApiCalls(h) :
            trace[h][i].tok # userData[h].qb_access_token

\* ------------------------------------------------------------------- C2
\* C2: at every moment at most one accounting-token refresh request is in
\* flight per tenant, counting the refreshes of the route handlers and of
\* the payment poller; a poller refresh and a handler refresh never both
\* submit the same stored refresh token.
C2_OneRefreshInFlight ==
  \A p \in InFlight, q \in InFlight :
    p = q

\* ------------------------------------------------------------------- C3
\* C3: every step of every refreshAndSaveToken / refreshQBToken call either
\* leaves the stored access and refresh token as they were or replaces both
\* by the pair one refresh response issued; no step persists a record with
\* one new and one old or missing token.
IssuedPair(ud) ==
  \E g \in 1..MaxGen :
    ud.qb_access_token = AT(g) /\ ud.qb_refresh_token = RT(g)

C3_TokenPairAtomic ==
  [][ LET old == rowToUserData(store)
          new == rowToUserData(store')
      IN ( old.qb_access_token # new.qb_access_token
           \/ old.qb_refresh_token # new.qb_refresh_token )
         => /\ IssuedPair(new)
            /\ \E p \in Procs :
                 /\ pc[p] \in {"proSave", "reSave", "pSave"}
                 /\ new.qb_access_token = refreshedData[p].qb_access_token
                 /\ new.qb_refresh_token = refreshedData[p].qb_refresh_token
    ]_vars

\* a handler's refresh has been persisted: the row holds the second pair
C3_Witness ==
  /\ StoredPair.qb_access_token = AT(2)
  /\ StoredPair.qb_refresh_token = RT(2)
  /\ \E h \in Handlers : Saves(h) # {}

\* ------------------------------------------------------------------- C4
\* C4: once a refresh request carrying refresh token R has been sent, no
\* later refresh request inside the same makeQBApiCall carries R again,
\* also when the proactive refresh failed and the API call returned 401.
C4_RefreshTokenNotReused ==
  \A h \in Handlers :
    \A i \in RefreshReqs(h), j \in RefreshReqs(h) :
      i # j => trace[h][i].tok # trace[h][j].tok


\* ------------------------------------------------------------------- C5
FirstApi(h) ==
  CHOOSE i \in ApiCalls(h) : \A j \in ApiCalls(h) : i <= j

Rejections(h) ==
  {i \in Indices(h, "refreshResp") : trace[h][i].out = "rejected"}

Last(s) ==
  s[Len(s)]

\* C6: the step in which a refresh request fails with a network, timeout
\* or unexpected-status error writes nothing to the store (access token,
\* refresh token and expiry stay as they are) and leaves the caller's
\* currentUserData, the previous token pair, as it was.
C6_TransientFailureWritesNothing ==
  [][ \A h \in Handlers :
        ( /\ Len(trace'[h]) = Len(trace[h]) + 1
          /\ Last(trace'[h]) = Ev("refreshResp", None, "transient") )
        => /\ store' = store
           /\ currentUserData'[h] = currentUserData[h]
    ]_vars

\* the proactive refresh failed transiently and the API call went out with
\* the token pair the call started with
C6_Witness ==
  \E h \in Handlers :
    /\ Len(trace[h]) >= 4
    /\ trace[h][3] = Ev("refreshResp", None, "transient")
    /\ trace[h][4].ev = "api"
    /\ trace[h][4].tok = userData[h].qb_access_token
    /\ StoredPair.qb_refresh_token = userData[h].qb_refresh_token

\* ------------------------------------------------------------------- C7
ReactiveReqs(h) ==
  {i \in RefreshReqs(h) : trace[h][i].out = "reactive"}

\* C7: one makeQBApiCall invokes the API call function at most twice; a 401
\* on the first attempt with a refresh token at hand sends one reactive
\* refresh; the second invocation happens only after that refresh was
\* answered and saved, carries the refreshed access token and is the last
\* thing the call does: a 401 on it is returned as an error, with no
\* further refresh or retry.
C7_AtMostOneRetry ==
  \A h \in Handlers :
    /\ Cardinality(ApiCalls(h)) <= 2
    /\ Cardinality(ReactiveReqs(h)) <= 1
    /\ ApiCalls(h) # {} =>
         LET a == FirstApi(h)
         IN /\ ( trace[h][a].out = "401"
                 /\ currentUserData[h].qb_refresh_token # None )
               => /\ Len(trace[h]) > a
                  /\ trace[h][a + 1].ev = "refreshReq"
                  /\ trace[h][a + 1].out = "reactive"
            /\ Cardinality(ApiCalls(h)) = 2
               => /\ trace[h][a].out = "401"
                  /\ trace[h][a + 2].ev = "refreshResp"
                  /\ trace[h][a + 2].out = "ok"
                  /\ trace[h][a + 3].ev = "setUser"
                  /\ trace[h][a + 3].out = "ok"
                  /\ Len(trace[h]) = a + 4
                  /\ trace[h][a + 4].ev = "api"
                  /\ trace[h][a + 4].tok = trace[h][a + 2].tok
                  /\ pc[h] = "done"
                  /\ trace[h][a + 4].out = "401"
                     => result[h] = "retryUnauthorized"

\* the retry itself came back with 401 and the call ended there
C7_Witness ==
  \E h \in Handlers :
    /\ Cardinality(ApiCalls(h)) = 2
    /\ Last(trace[h]).out = "401"
    /\ result[h] = "retryUnauthorized"

\* ------------------------------------------------------------------- C8
\* C8: when the record has no refresh token and its access token is stale,
\* makeQBApiCall sends no refresh request, invokes the API call once with
\* the existing token, and a 401 from that call ends makeQBApiCall with the
\* authentication error, without a retry.
C8_NoRefreshTokenNoRetry ==
  \A h \in Handlers :
    ( /\ Started(h)
      /\ userData[h].qb_refresh_token = None
      /\ ExpiryAtStart(h) \in {"past", "in2min", "soon"} )
    => /\ RefreshReqs(h) = {}
       /\ pc[h] \in {"call", "done"}
       /\ Cardinality(ApiCalls(h)) = (IF pc[h] = "done" THEN 1 ELSE 0)
       /\ \A i \in ApiCalls(h) :
            /\ trace[h][i].tok = userData[h].qb_access_token
            /\ trace[h][i].out = "401" => result[h] = "sessionExpired"

C8_Witness ==
  \E h \in Handlers :
    /\ Started(h)
    /\ userData[h].qb_refresh_token = None
    /\ ExpiryAtStart(h) = "past"
    /\ pc[h] = "done"
    /\ result[h] = "sessionExpired"

\* ------------------------------------------------------------------- C9
ExpiresInTwoMinutes(h) ==
  /\ Started(h)
  /\ ExpiryAtStart(h) = "in2min"
  /\ userData[h].qb_refresh_token # None

RefreshRefused(h) ==
  \E i \in Indices(h, "refreshResp") : trace[h][i].out # "ok"

SaveFailed(h) ==
  \E i \in Indices(h, "setUser") : trace[h][i].out # "ok"

SavedBeforeFirstApi(h) ==
  \E s \in Saves(h) :
    /\ s < FirstApi(h)
    /\ trace[h][s].tok = trace[h][FirstApi(h)].tok
    /\ trace[h][s].tok # userData[h].qb_access_token

ValidNoUnauthorized(h) ==
  /\ Started(h)
  /\ ExpiryAtStart(h) = "later"
  /\ ApiCalls(h) # {}
  /\ trace[h][FirstApi(h)].out # "401"

\* C10: when the stored expiry is more than 10 minutes ahead and the API
\* call does not return 401, makeQBApiCall sends no refresh request and
\* none of its steps writes the stored record.
C10_ValidTokenNoRefresh ==
  [][ \A h \in Handlers :
        ValidNoUnauthorized(h)'
        => /\ RefreshReqs(h)' = {}
           /\ Indices(h, "setUser")' = {}
           /\ trace'[h] # trace[h] => store' = store
    ]_vars

C10_Witness ==
  \E h \in Handlers :
    /\ ValidNoUnauthorized(h)
    /\ pc[h] = "done"
    /\ result[h] = "ok"
    /\ RefreshReqs(h) = {}


\* =========================================================================
\* The users table and the identifier lookups of the routes.
\*
\* A string (identifier, stored key, api_domain) is a sequence of pieces: a
\* scheme piece, letters, the ".pipedrive.com" piece.  Equality, prefix and
\* suffix stripping, substring containment and case folding are computed on
\* the pieces the way the JavaScript and SQL operators compute them on
\* characters.  The empty sequence stands for null, undefined and '' alike
\* (the code tests all three with ! or filter(id => id)).
\* =========================================================================

\* ------------------------------------------------------------------ bounds
MaxRows ==
  3

\* ----------------------------------------------------------------- strings
Schemes ==
  {"http://", "https://"}
Suffix ==
  ".pipedrive.com"
NoStr ==
  << >>
Null ==
  [null |-> TRUE]

startsWith(s, piece) ==
  Len(s) > 0 /\ s[1] = piece

endsWith(s, piece) ==
  Len(s) > 0 /\ s[Len(s)] = piece

\* String.prototype.includes: t occurs in s as a contiguous run
includes(s, t) ==
  \E i \in 0..(Len(s) - Len(t)) : SubSeq(s, i + 1, i + Len(t)) = t

\* s.replace(piece, ''): the first occurrence of the piece is removed
replaceFirst(s, piece) ==
  LET hits == {i \in 1..Len(s) : s[i] = piece}
  IN IF hits = {} THEN s
     ELSE LET i == CHOOSE k \in hits : \A j \in hits : k <= j
          IN SubSeq(s, 1, i - 1) \o SubSeq(s, i + 1, Len(s))

\* case folding of ILIKE
lowerPiece(c) ==
  IF c = "A" THEN "a" ELSE c

lower(s) ==
  [i \in 1..Len(s) |-> lowerPiece(s[i])]

\* column ILIKE '%pattern%'; a NULL column matches nothing
ilike(column, pattern) ==
  column # NoStr /\ includes(lower(column), lower(pattern))

\* a || b of JavaScript on numbers and on strings
Or(a, b) ==
  IF a # None THEN a ELSE b

OrS(a, b) ==
  IF a # NoStr THEN a ELSE b

\* data.f of a JavaScript object: undefined when the object has no such key
Get(data, f) ==
  IF f \in DOMAIN data THEN data[f] ELSE None

GetS(data, f) ==
  IF f \in DOMAIN data THEN data[f] ELSE NoStr

\* -------------------------------------------------------------- postgres.js
normalizeUserId(id) ==
  LET normalized == IF Len(id) > 0 /\ id[1] \in Schemes THEN Tail(id) ELSE id
  IN IF endsWith(normalized, Suffix)
     THEN SubSeq(normalized, 1, Len(normalized) - 1)
     ELSE normalized

\* [...new Set(possibleIds.filter(id => id))] of getUser, in order
possibleIds(userId) ==
  LET normalized == normalizeUserId(userId)
      withSuffix == normalized \o <<Suffix>>
      all == <<userId>>
             \o (IF normalized # userId THEN <<normalized>> ELSE << >>)
             \o (IF withSuffix # userId THEN <<withSuffix>> ELSE << >>)
  IN SelectSeq(all, LAMBDA id : id # NoStr)

rowToUserDataOf(row) ==
  IF row = Null THEN Null
  ELSE [pipedrive_access_token  |-> decrypt(row.pipedrive_access_token),
        access_token            |-> decrypt(row.pipedrive_access_token),
        pipedrive_refresh_token |-> decrypt(row.pipedrive_refresh_token),
        refresh_token           |-> decrypt(row.pipedrive_refresh_token),
        pipedrive_expires_at    |-> row.pipedrive_expires_at,
        expires_at              |-> row.pipedrive_expires_at,
        pipedrive_api_domain    |-> row.pipedrive_api_domain,
        api_domain              |-> row.pipedrive_api_domain,
        qb_access_token         |-> decrypt(row.qb_access_token),
        qb_refresh_token        |-> decrypt(row.qb_refresh_token),
        qb_realm_id             |-> row.qb_realm_id,
        qb_expires_at           |-> row.qb_expires_at,
        shipstation_api_key     |-> row.shipstation_api_key,
        shipstation_api_secret  |-> row.shipstation_api_secret,
        setup_token             |-> row.setup_token,
        setup_token_expires     |-> row.setup_token_expires,
        invoice_preferences     |-> row.invoice_preferences]

\* The rows getUser can come back with.  The exact matches are tried id by
\* id and a key is unique; the fallback query has no ORDER BY, so any of
\* its rows can be rows[0].
getUserRows(table, userId) ==
  LET ids == possibleIds(userId)
      normalized == normalizeUserId(userId)
      exact(i) == {r \in table : r.pipedrive_user_id = ids[i]}
      fallback(i) == {r \in table :
                        \/ ilike(r.pipedrive_api_domain, ids[i])
                        \/ ilike(r.pipedrive_api_domain, normalized)}
      exactHits == {i \in 1..Len(ids) : exact(i) # {}}
      fallbackHits == {i \in 1..Len(ids) : fallback(i) # {}}
  IN IF exactHits # {}
     THEN exact(CHOOSE i \in exactHits : \A j \in exactHits : i <= j)
     ELSE IF fallbackHits # {}
     THEN fallback(CHOOSE i \in fallbackHits : \A j \in fallbackHits : i <= j)
     ELSE {Null}

getUserResults(table, userId) ==
  {rowToUserDataOf(r) : r \in getUserRows(table, userId)}

\* created_at DEFAULT CURRENT_TIMESTAMP: later than every stamp so far
currentTimestamp(table) ==
  IF table = {} THEN 1
  ELSE 1 + (CHOOSE m \in {r.created_at : r \in table} :
              \A r \in table : r.created_at <= m)

\* the column values both the UPDATE and the INSERT of setUser bind
setUserColumns(key, created, data) ==
  [pipedrive_user_id       |-> key,
   pipedrive_access_token  |-> encrypt(Or(Get(data, "pipedrive_access_token"),
                                          Get(data, "access_token"))),
   pipedrive_refresh_token |-> encrypt(Or(Get(data, "pipedrive_refresh_token"),
                                          Get(data, "refresh_token"))),
   pipedrive_expires_at    |-> Or(Get(data, "pipedrive_expires_at"),
                                  Get(data, "expires_at")),
   pipedrive_api_domain    |-> OrS(GetS(data, "pipedrive_api_domain"),
                                   GetS(data, "api_domain")),
   qb_access_token         |-> encrypt(Get(data, "qb_access_token")),
   qb_refresh_token        |-> encrypt(Get(data, "qb_refresh_token")),
   qb_realm_id             |-> Get(data, "qb_realm_id"),
   qb_expires_at           |-> Get(data, "qb_expires_at"),
   shipstation_api_key     |-> Get(data, "shipstation_api_key"),
   shipstation_api_secret  |-> Get(data, "shipstation_api_secret"),
   setup_token             |-> GetS(data, "setup_token"),
   setup_token_expires     |-> Get(data, "setup_token_expires"),
   invoice_preferences     |-> Get(data, "invoice_preferences"),
   created_at              |-> created]

\* setUser(userId, null) dereferences data and throws before any write
setUserAcceptsNull(data) ==
  FALSE

setUserThrows(data) ==
  data = Null

setUserTable(table, userId, data) ==
  LET normalized == normalizeUserId(userId)
      existing == {r \in table : r.pipedrive_user_id = normalized}
  IN IF existing # {}
     THEN (table \ existing)
          \cup {setUserColumns(normalized, r.created_at, data) : r \in existing}
     ELSE table
          \cup {setUserColumns(normalized, currentTimestamp(table), data)}

\* listUsers: SELECT pipedrive_user_id FROM users, in whatever order the
\* scan yields the rows
listUsers(table) ==
  LET keys == {r.pipedrive_user_id : r \in table}
      n == Cardinality(keys)
  IN {order \in [1..n -> keys] :
        \A i, j \in 1..n : i # j => order[i] # order[j]}

rowOfKey(table, key) ==
  CHOOSE r \in table : r.pipedrive_user_id = key

\* ------------------------------------------------- tenants and identifiers
\* CRM tokens are numbers as well: PAT(t) / PRT(t) are the access / refresh
\* token Pipedrive issued to company t.  The accounting pair of company
\* file (realm) r is AT(r), RT(r) and, after one refresh, AT(r + NumRealms),
\* RT(r + NumRealms).
PATBase ==
  30
PRTBase ==
  40
NumRealms ==
  2
Realms ==
  1..NumRealms

PAT(t) ==
  PATBase + t
PRT(t) ==
  PRTBase + t

\* the api_domain values Pipedrive reports for the two companies
DomainAc ==
  <<"https://", "a", "c", Suffix>>
DomainB ==
  <<"https://", "b", Suffix>>
ApiDomains ==
  {DomainAc, DomainB}

crmTenant(domain) ==
  IF domain = DomainAc THEN 1 ELSE 2

\* the five spellings of a canonical key that callers send
variants(key) ==
  {key,
   key \o <<Suffix>>,
   <<"http://">> \o key,
   <<"https://">> \o key,
   <<"https://">> \o key \o <<Suffix>>}

\* Identifiers requests carry: company ac as its key, with the scheme and
\* as the full api_domain, the key of company b, a fragment of ac, a
\* numeric user id, and an identifier that belongs to nobody.
NumericId ==
  <<"7">>
Stranger ==
  <<"z">>
Ids ==
  {<<"a", "c">>, <<"https://", "a", "c">>,
   <<"https://", "a", "c", Suffix>>, <<"b">>, <<"c">>, NumericId, Stranger}

\* the identifiers the accounting OAuth flow is started with
QbCallbackIds ==
  {<<"a", "c">>, <<"b">>, <<"c">>}

\* expiry of a freshly connected accounting pair as later requests see it
QbExpiries ==
  {StartNow + 2}

\* what a route answered: the record it worked with and the tokens it used
outcome(status, actualUserId, qbToken, crmToken, table) ==
  [status |-> status, actualUserId |-> actualUserId, qbToken |-> qbToken,
   crmToken |-> crmToken, table |-> table]

\* { ...base, ...over } of JavaScript
spread(base, over) ==
  [f \in (DOMAIN base) \cup (DOMAIN over) |->
     IF f \in DOMAIN over THEN over[f] ELSE base[f]]

\* [...new Set(ids.filter(id => id))]: falsy entries dropped, first
\* occurrences kept in order
RECURSIVE uniqueIds(_)
uniqueIds(ids) ==
  IF ids = << >> THEN << >>
  ELSE LET front == uniqueIds(SubSeq(ids, 1, Len(ids) - 1))
           last == ids[Len(ids)]
       IN IF last = NoStr \/ (\E k \in 1..Len(front) : front[k] = last)
          THEN front ELSE Append(front, last)

\* userData && userData.qb_access_token && userData.qb_realm_id
hasQbTokens(ud) ==
  /\ ud # Null
  /\ Get(ud, "qb_access_token") # None
  /\ Get(ud, "qb_realm_id") # None

\* refreshAndSaveToken(userId, userData) as the table sees it: nothing
\* without a refresh token, nothing when the provider or the write fails,
\* otherwise one setUser(userId, updatedUserData).  Only a first pair is
\* exchanged here; the rotation itself is the subject of Spec.
refreshAndSaveTables(table, userId, ud) ==
  LET g == ud.qb_access_token - ATBase
      tokens == [access_token  |-> AT(g + NumRealms),
                 refresh_token |-> RT(g + NumRealms),
                 expires_in    |-> ExpiresInMin]
  IN IF ~hasRefreshToken(ud) \/ g > NumRealms THEN {table}
     ELSE {table,
           setUserTable(table, userId, updatedUserData(ud, tokens, now))}

\* makeQBApiCall(actualUserId, userData, ...) as the table sees it: the
\* proactive check and, when it says so, refreshAndSaveToken
makeQBApiCallTables(table, actualUserId, ud) ==
  IF tokenNeedsRefresh(ud, now)
  THEN refreshAndSaveTables(table, actualUserId, ud)
  ELSE {table}

\* ------------------------------------------------------------ second Init
InitStore ==
  /\ store = [qb_access_token  |-> encrypt(AT(1)),
              qb_refresh_token |-> encrypt(RT(1)),
              qb_expires_at    |-> StartNow + ExpiresInMin]
  /\ now = StartNow
  /\ provGen = 1
  /\ pc = [p \in Procs |-> "idle"]
  /\ userData = [p \in Procs |-> NoUserData]
  /\ currentUserData = [p \in Procs |-> NoUserData]
  /\ refreshedData = [p \in Procs |-> NoUserData]
  /\ trace = [p \in Procs |-> << >>]
  /\ result = [p \in Procs |-> "none"]
  /\ polls = 0
  /\ users = {}
  /\ secret = SecretLens[3]
  /\ server = "listening"
  /\ cipher = NoCall
  /\ crm = NoCrmCall
  /\ ship = NoShip

\* a route that answered with outcome o leaves the table of o behind
answers(o) ==
  /\ Cardinality(o.table) <= MaxRows
  /\ users' = o.table
  /\ UNCHANGED <<tokenVars, bootVars, cipherVars, crmVars, shipVars>>

\* getUser(key) for a key listUsers returned
getUserOfKey(table, key) ==
  CHOOSE u \in getUserResults(table, key) : TRUE

\* ------------------------------------------------------- OAuth callbacks
\* GET /auth/pipedrive/callback: the record is written under the api_domain
\* Pipedrive reports, with the CRM fields only.
pipedriveCallbackData(table, domain) ==
  [access_token  |-> PAT(crmTenant(domain)),
   refresh_token |-> PRT(crmTenant(domain)),
   api_domain    |-> domain,
   created_at    |-> currentTimestamp(table)]

pipedriveCallbackUserId(domain) ==
  IF startsWith(domain, "https://")
  THEN replaceFirst(domain, "https://") ELSE domain

pipedriveCallbackOutcomes(table, domain) ==
  {outcome("ok", normalizeUserId(pipedriveCallbackUserId(domain)), None,
           PAT(crmTenant(domain)),
           setUserTable(table, pipedriveCallbackUserId(domain),
                        pipedriveCallbackData(table, domain)))}

pipedriveCallback(domain) ==
  \E o \in pipedriveCallbackOutcomes(users, domain) : answers(o)

\* the loop of /auth/qb/callback over listUsers: the first record with CRM
\* tokens is taken, whatever its identifier
RECURSIVE qbCallbackScan(_, _, _, _, _)
qbCallbackStep(table, order, i, existingUser, actualUserId, candidateId, candidateUser) ==
  IF candidateUser # Null /\ candidateUser.pipedrive_access_token # None
  THEN [user |-> candidateUser, id |-> candidateId]
  ELSE qbCallbackScan(table, order, i + 1, existingUser, actualUserId)

qbCallbackScan(table, order, i, existingUser, actualUserId) ==
  IF i > Len(order) THEN [user |-> existingUser, id |-> actualUserId]
  ELSE qbCallbackStep(table, order, i, existingUser, actualUserId, order[i],
                      getUserOfKey(table, order[i]))

\* updatedUser of the callback: the found record, the new pair and, when
\* the state carries one, pipedrive_numeric_id
qbCallbackUpdatedUser(existingUser, numericUserId, realm, expiresAt) ==
  spread(spread(IF existingUser = Null THEN << >> ELSE existingUser,
                [qb_access_token  |-> AT(realm),
                 qb_refresh_token |-> RT(realm),
                 qb_realm_id      |-> realm,
                 qb_expires_at    |-> expiresAt]),
         IF numericUserId # NoStr
         THEN [pipedrive_numeric_id |-> numericUserId] ELSE << >>)

\* the setup session of the callback: crypto.randomBytes(32) as a token,
\* good for SetupTokenMin minutes from the time t of the callback
SetupTokenMin ==
  30
SetupTokens ==
  {<<"s1">>}

withSetupToken(updatedUser, setupToken, t) ==
  spread(updatedUser, [setup_token         |-> setupToken,
                       setup_token_expires |-> t + SetupTokenMin])

\* setUser(actualUserId, updatedUser), then setUser(actualUserId,
\* {...updatedUser, setup_token, setup_token_expires})
qbCallbackStore(table, found, numericUserId, realm, expiresAt) ==
  outcome("ok", normalizeUserId(found.id), AT(realm), None,
          setUserTable(
            setUserTable(table, found.id,
                         qbCallbackUpdatedUser(found.user, numericUserId,
                                               realm, expiresAt)),
            found.id,
            withSetupToken(qbCallbackUpdatedUser(found.user, numericUserId,
                                                 realm, expiresAt),
                           CHOOSE t \in SetupTokens : TRUE, now)))

\* GET /auth/qb/callback after the code exchange
qbCallbackOutcomes(table, userId, numericUserId, realm, expiresAt) ==
  {qbCallbackStore(table,
                   IF first = Null \/ first.pipedrive_access_token = None
                   THEN qbCallbackScan(table, order, 1, first, userId)
                   ELSE [user |-> first, id |-> userId],
                   numericUserId, realm, expiresAt) :
     first \in getUserResults(table, userId), order \in listUsers(table)}

qbCallback(userId, numericUserId, realm, expiresAt) ==
  \E o \in qbCallbackOutcomes(users, userId, numericUserId, realm, expiresAt) :
    answers(o)

\* ------------------------------------------------------------ data routes
\* the "is this record related to the provided userId" test shared by the
\* scans of /api/customers/search and /api/attach-contact
isRelatedTo(normalizedKey, domain, normalizedProvidedId) ==
  \/ normalizedKey = normalizedProvidedId
  \/ (domain # NoStr /\ includes(domain, normalizedProvidedId))
  \/ (domain # NoStr /\ replaceFirst(domain, "https://") # NoStr
        /\ includes(normalizedProvidedId, replaceFirst(domain, "https://")))

isRelated(key, testUserData, providedUserId) ==
  isRelatedTo(replaceFirst(key, "https://"), testUserData.api_domain,
              replaceFirst(providedUserId, "https://"))

\* the loop of /api/customers/search over listUsers: a related record with
\* accounting tokens ends it, and while nothing was found the first record
\* with accounting tokens is kept as "potential match"
RECURSIVE customersSearchScan(_, _, _, _, _, _)
customersSearchStep(table, order, i, providedUserId, ud, actualUserId, key, testUserData) ==
  IF hasQbTokens(testUserData)
  THEN IF isRelated(key, testUserData, providedUserId)
       THEN [user |-> testUserData, id |-> key]
       ELSE IF ud = Null /\ testUserData.qb_realm_id # None
       THEN customersSearchScan(table, order, i + 1, providedUserId,
                                testUserData, key)
       ELSE customersSearchScan(table, order, i + 1, providedUserId,
                                ud, actualUserId)
  ELSE customersSearchScan(table, order, i + 1, providedUserId,
                           ud, actualUserId)

customersSearchScan(table, order, i, providedUserId, ud, actualUserId) ==
  IF i > Len(order) THEN [user |-> ud, id |-> actualUserId]
  ELSE customersSearchStep(table, order, i, providedUserId, ud, actualUserId,
                           order[i], getUserOfKey(table, order[i]))

\* the answer once the lookup has settled on a record (or on none)
customersSearchAnswer(table, found) ==
  IF ~hasQbTokens(found.user)
  THEN {outcome("not connected", NoStr, None, None, table)}
  ELSE {outcome("ok", found.id, found.user.qb_access_token, None, t) :
          t \in makeQBApiCallTables(table, found.id, found.user)}

\* GET /api/customers/search
customersSearchOutcomes(table, providedUserId) ==
  UNION {customersSearchAnswer(table,
           IF ~hasQbTokens(first)
           THEN customersSearchScan(table, order, 1, providedUserId, first,
                                    providedUserId)
           ELSE [user |-> first, id |-> providedUserId]) :
         first \in getUserResults(table, providedUserId),
         order \in listUsers(table)}

customersSearch(providedUserId) ==
  \E o \in customersSearchOutcomes(users, providedUserId) : answers(o)

\* the loop of /api/pipedrive/deal-address over listUsers: the first record
\* with CRM tokens and an api_domain
RECURSIVE dealAddressScan(_, _, _, _, _)
dealAddressStep(table, order, i, ud, actualUserId, key, testUserData) ==
  IF testUserData # Null /\ testUserData.access_token # None
       /\ testUserData.api_domain # NoStr
  THEN [user |-> testUserData, id |-> key]
  ELSE dealAddressScan(table, order, i + 1, ud, actualUserId)

dealAddressScan(table, order, i, ud, actualUserId) ==
  IF i > Len(order) THEN [user |-> ud, id |-> actualUserId]
  ELSE dealAddressStep(table, order, i, ud, actualUserId, order[i],
                       getUserOfKey(table, order[i]))

dealAddressAnswer(table, found) ==
  IF found.user = Null \/ found.user.access_token = None
  THEN outcome("not connected", NoStr, None, None, table)
  ELSE outcome("ok", found.id, None, found.user.access_token, table)

\* GET /api/pipedrive/deal-address
dealAddressOutcomes(table, userId) ==
  {dealAddressAnswer(table,
     IF first = Null \/ first.access_token = None
     THEN dealAddressScan(table, order, 1, first, userId)
     ELSE [user |-> first, id |-> userId]) :
   first \in getUserResults(table, userId), order \in listUsers(table)}

dealAddress(userId) ==
  \E o \in dealAddressOutcomes(users, userId) : answers(o)

\* qbTokensByDomain after one more record: the first record with accounting
\* tokens of an api_domain is remembered under the domain without https://
rememberQbTokens(qbTokensByDomain, key, testUserData) ==
  IF hasQbTokens(testUserData) /\ testUserData.api_domain # NoStr
       /\ \A k \in 1..Len(qbTokensByDomain) :
            qbTokensByDomain[k].domain
              # replaceFirst(testUserData.api_domain, "https://")
  THEN Append(qbTokensByDomain,
              [domain |-> replaceFirst(testUserData.api_domain, "https://"),
               key |-> key, data |-> testUserData])
  ELSE qbTokensByDomain

\* the entry pushed to usersWithPipedriveTokens; rowToUserData hands out no
\* created_at, so createdAt is new Date(0) unless the record carries one
pipedriveCandidate(key, testUserData) ==
  [key |-> key, data |-> testUserData,
   createdAt |-> Get(testUserData, "created_at"),
   hasQBTokens |-> hasQbTokens(testUserData),
   apiDomain |-> replaceFirst(testUserData.api_domain, "https://")]

\* the loop of /api/attach-contact over listUsers: a related record ends
\* it, the other records with CRM tokens are collected
RECURSIVE attachContactScan(_, _, _, _, _, _)
attachContactStep(table, order, i, providedUserId, usersWithPipedriveTokens, qbTokensByDomain, key, testUserData) ==
  IF testUserData # Null /\ testUserData.access_token # None
  THEN IF isRelated(key, testUserData, providedUserId)
       THEN [matched |-> TRUE, user |-> testUserData, id |-> key,
             usersWithPipedriveTokens |-> usersWithPipedriveTokens,
             qbTokensByDomain |-> qbTokensByDomain]
       ELSE attachContactScan(table, order, i + 1, providedUserId,
                              Append(usersWithPipedriveTokens,
                                     pipedriveCandidate(key, testUserData)),
                              qbTokensByDomain)
  ELSE attachContactScan(table, order, i + 1, providedUserId,
                         usersWithPipedriveTokens, qbTokensByDomain)

attachContactScan(table, order, i, providedUserId, usersWithPipedriveTokens, qbTokensByDomain) ==
  IF i > Len(order)
  THEN [matched |-> FALSE, user |-> Null, id |-> NoStr,
        usersWithPipedriveTokens |-> usersWithPipedriveTokens,
        qbTokensByDomain |-> qbTokensByDomain]
  ELSE attachContactStep(table, order, i, providedUserId,
                         usersWithPipedriveTokens,
                         rememberQbTokens(qbTokensByDomain, order[i],
                                          getUserOfKey(table, order[i])),
                         order[i], getUserOfKey(table, order[i]))

\* usersWithPipedriveTokens.sort((a, b) => b.createdAt - a.createdAt)[0]:
\* the sort is stable, so among equal stamps the first collected stays first
freshestIndices(candidates) ==
  {i \in 1..Len(candidates) :
     \A j \in 1..Len(candidates) :
       candidates[j].createdAt <= candidates[i].createdAt}

freshestOf(candidates) ==
  candidates[CHOOSE i \in freshestIndices(candidates) :
               \A j \in freshestIndices(candidates) : i <= j]

\* qbTokensByDomain[freshest.apiDomain], Null when there is no such entry
sameTenantQB(qbTokensByDomain, apiDomain) ==
  IF \E k \in 1..Len(qbTokensByDomain) : qbTokensByDomain[k].domain = apiDomain
  THEN qbTokensByDomain[CHOOSE k \in 1..Len(qbTokensByDomain) :
                          qbTokensByDomain[k].domain = apiDomain]
  ELSE Null

canMerge(ud, source) ==
  /\ source # Null
  /\ (ud.qb_realm_id = None \/ ud.qb_realm_id = source.data.qb_realm_id)

\* userData after the three assignments of the merge
mergedUserData(ud, sourceData) ==
  [ud EXCEPT !.qb_access_token  = sourceData.qb_access_token,
             !.qb_refresh_token = sourceData.qb_refresh_token,
             !.qb_realm_id      = sourceData.qb_realm_id]

\* the record the route goes on with, or the 400 answer
attachContactAnswer(ud, actualUserId, table) ==
  IF ud = Null \/ ud.access_token = None
  THEN outcome("not connected", NoStr, None, None, table)
  ELSE outcome("ok", actualUserId, ud.qb_access_token, ud.access_token, table)

\* the freshest record is used, after the accounting tokens of a record of
\* the same api_domain were merged into it and saved when it has none
attachContactMerge(table, freshest, source) ==
  IF ~freshest.hasQBTokens /\ freshest.apiDomain # NoStr
       /\ canMerge(freshest.data, source)
  THEN attachContactAnswer(mergedUserData(freshest.data, source.data),
         freshest.key,
         setUserTable(table, freshest.key,
                      mergedUserData(freshest.data, source.data)))
  ELSE attachContactAnswer(freshest.data, freshest.key, table)

attachContactFreshest(table, freshest, qbTokensByDomain) ==
  attachContactMerge(table, freshest,
                     sameTenantQB(qbTokensByDomain, freshest.apiDomain))

attachContactAfterScan(table, providedUserId, scan) ==
  IF scan.matched THEN attachContactAnswer(scan.user, scan.id, table)
  ELSE IF scan.usersWithPipedriveTokens # << >>
  THEN attachContactFreshest(table, freshestOf(scan.usersWithPipedriveTokens),
                             scan.qbTokensByDomain)
  ELSE attachContactAnswer(Null, providedUserId, table)

\* POST /api/attach-contact up to the CRM calls
attachContactOutcomes(table, providedUserId) ==
  {IF initialUserData # Null /\ initialUserData.access_token # None
   THEN attachContactAnswer(initialUserData, providedUserId, table)
   ELSE attachContactAfterScan(table, providedUserId,
          attachContactScan(table, order, 1, providedUserId, << >>, << >>)) :
   initialUserData \in getUserResults(table, providedUserId),
   order \in listUsers(table)}

attachContact(providedUserId) ==
  \E o \in attachContactOutcomes(users, providedUserId) : answers(o)

\* --------------------------------------------------------- status routes
\* the direct lookups of /api/user-status: every found record replaces the
\* one before, a record with accounting tokens ends the loop
RECURSIVE userStatusTry(_, _, _, _, _)
userStatusTry(table, ids, i, ud, foundUserId) ==
  IF i > Len(ids) THEN {[user |-> ud, id |-> foundUserId]}
  ELSE UNION {
         IF tryUserData = Null
         THEN userStatusTry(table, ids, i + 1, ud, foundUserId)
         ELSE IF hasQbTokens(tryUserData)
         THEN {[user |-> tryUserData, id |-> ids[i]]}
         ELSE userStatusTry(table, ids, i + 1, tryUserData, ids[i]) :
         tryUserData \in getUserResults(table, ids[i])}

\* isMatch of the scan of /api/user-status, no companyDomain in the query
userStatusIsMatchOn(key, normalizedKey, domain, pipedrive_numeric_id, pipedriveUserId, normalizedInput, numericUserId) ==
  \/ normalizedKey = normalizedInput
  \/ key = pipedriveUserId
  \/ (domain # NoStr /\ includes(domain, normalizedInput))
  \/ includes(normalizedInput, normalizedKey)
  \/ includes(normalizedKey, normalizedInput)
  \/ (numericUserId # NoStr /\ pipedrive_numeric_id = numericUserId)
  \/ (pipedrive_numeric_id # NoStr /\ pipedrive_numeric_id = pipedriveUserId)
  \/ (pipedrive_numeric_id # NoStr /\ pipedrive_numeric_id = normalizedInput)

userStatusIsMatch(key, testUserData, pipedriveUserId, numericUserId) ==
  userStatusIsMatchOn(key, normalizeUserId(key), testUserData.api_domain,
                      GetS(testUserData, "pipedrive_numeric_id"),
                      pipedriveUserId, normalizeUserId(pipedriveUserId),
                      numericUserId)

RECURSIVE userStatusScan(_, _, _, _, _, _, _)
userStatusStep(table, order, i, ud, foundUserId, pipedriveUserId, numericUserId, key, testUserData) ==
  IF hasQbTokens(testUserData)
       /\ userStatusIsMatch(key, testUserData, pipedriveUserId, numericUserId)
  THEN [user |-> testUserData, id |-> key]
  ELSE userStatusScan(table, order, i + 1, ud, foundUserId, pipedriveUserId,
                      numericUserId)

userStatusScan(table, order, i, ud, foundUserId, pipedriveUserId, numericUserId) ==
  IF i > Len(order) THEN [user |-> ud, id |-> foundUserId]
  ELSE userStatusStep(table, order, i, ud, foundUserId, pipedriveUserId,
                      numericUserId, order[i], getUserOfKey(table, order[i]))

\* possibleUserIds of /api/user-status and /api/disconnect-qb
routeUserIds(userId, normalizedInput) ==
  uniqueIds(<<userId,
              normalizedInput,
              normalizedInput \o <<Suffix>>,
              <<"https://">> \o normalizedInput \o <<Suffix>>,
              <<"https://">> \o userId>>)

\* the answer once the lookup has settled: connected or not, after the
\* proactive refresh under foundUserId when the token is about to expire
userStatusAnswer(table, found) ==
  IF found.user = Null
  THEN {outcome("no user data", NoStr, None, None, table)}
  ELSE IF ~hasQbTokens(found.user)
  THEN {outcome("not connected", found.id, None, None, table)}
  ELSE IF tokenNeedsRefresh(found.user, now)
  THEN {outcome("connected", found.id, found.user.qb_access_token, None, t) :
          t \in refreshAndSaveTables(table, found.id, found.user)}
  ELSE {outcome("connected", found.id, found.user.qb_access_token, None,
                table)}

\* GET /api/user-status
userStatusOutcomes(table, pipedriveUserId, numericUserId) ==
  UNION {userStatusAnswer(table,
           IF direct.user = Null
                \/ (direct.user.qb_access_token = None
                      /\ direct.user.qb_realm_id = None)
           THEN userStatusScan(table, order, 1, direct.user, direct.id,
                               pipedriveUserId, numericUserId)
           ELSE direct) :
         direct \in userStatusTry(table,
                      routeUserIds(pipedriveUserId,
                                   normalizeUserId(pipedriveUserId)),
                      1, Null, NoStr),
         order \in listUsers(table)}

userStatus(pipedriveUserId, numericUserId) ==
  \E o \in userStatusOutcomes(users, pipedriveUserId, numericUserId) :
    answers(o)

\* the direct lookups of /api/disconnect-qb: the first record with
\* accounting tokens
RECURSIVE disconnectQbTry(_, _, _)
disconnectQbTry(table, ids, i) ==
  IF i > Len(ids) THEN {[user |-> Null, id |-> NoStr]}
  ELSE UNION {
         IF hasQbTokens(tryUserData)
         THEN {[user |-> tryUserData, id |-> ids[i]]}
         ELSE disconnectQbTry(table, ids, i + 1) :
         tryUserData \in getUserResults(table, ids[i])}

\* isMatch of the scan of /api/disconnect-qb
disconnectQbIsMatchOn(key, normalizedKey, domain, pipedrive_user_id, userId, normalizedInput) ==
  \/ normalizedKey = normalizedInput
  \/ key = userId
  \/ (domain # NoStr /\ includes(domain, normalizedInput))
  \/ includes(normalizedInput, normalizedKey)
  \/ includes(normalizedKey, normalizedInput)
  \/ (pipedrive_user_id # NoStr /\ pipedrive_user_id = normalizedInput)

disconnectQbIsMatch(key, testUserData, userId) ==
  disconnectQbIsMatchOn(key, normalizeUserId(key), testUserData.api_domain,
                        GetS(testUserData, "pipedrive_user_id"), userId,
                        normalizeUserId(userId))

RECURSIVE disconnectQbScan(_, _, _, _)
disconnectQbStep(table, order, i, userId, key, testUserData) ==
  IF hasQbTokens(testUserData)
       /\ disconnectQbIsMatch(key, testUserData, userId)
  THEN [user |-> testUserData, id |-> key]
  ELSE disconnectQbScan(table, order, i + 1, userId)

disconnectQbScan(table, order, i, userId) ==
  IF i > Len(order) THEN [user |-> Null, id |-> NoStr]
  ELSE disconnectQbStep(table, order, i, userId, order[i],
                        getUserOfKey(table, order[i]))

\* updatedUser of /api/disconnect-qb: the record with the accounting fields
\* cleared
disconnectedUser(ud) ==
  spread(ud, [qb_access_token     |-> None,
              qb_refresh_token    |-> None,
              qb_realm_id         |-> None,
              qb_expires_at       |-> None,
              setup_token         |-> NoStr,
              setup_token_expires |-> None,
              invoice_preferences |-> None])

disconnectQbAnswer(table, found) ==
  IF found.user = Null
  THEN outcome("not found", NoStr, None, None, table)
  ELSE outcome("ok", found.id, None, None,
               setUserTable(table, found.id, disconnectedUser(found.user)))

\* POST /api/disconnect-qb, no x-pipedrive-token header
disconnectQbOutcomes(table, userId) ==
  {disconnectQbAnswer(table,
     IF direct.user = Null
     THEN disconnectQbScan(table, order, 1, userId)
     ELSE direct) :
   direct \in disconnectQbTry(table,
                routeUserIds(userId, normalizeUserId(userId)), 1),
   order \in listUsers(table)}

disconnectQb(userId) ==
  \E o \in disconnectQbOutcomes(users, userId) : answers(o)

\* POST /deauth: the signature is compared when the header is there; the
\* record is looked up and setUser(userId, null) is called on it, and
\* whatever is thrown is answered with 200 OK
Signatures ==
  {"absent", "valid", "invalid"}

\* the CRM token the dealFields requests of /deauth are sent with: only a
\* record that carries qb_field_id and access_token gets them
deauthFieldToken(ud) ==
  IF Get(ud, "qb_field_id") # None /\ Get(ud, "access_token") # None
  THEN ud.access_token
  ELSE None

deauthOutcomes(table, userId, signature) ==
  IF signature = "invalid"
  THEN {outcome("invalid signature", NoStr, None, None, table)}
  ELSE {IF ud = Null THEN outcome("ok", NoStr, None, None, table)
        ELSE IF setUserThrows(Null)
        THEN outcome("ok", userId, None, deauthFieldToken(ud), table)
        ELSE outcome("ok", userId, None, deauthFieldToken(ud),
                     setUserTable(table, userId, Null)) :
        ud \in getUserResults(table, userId)}

deauth(userId, signature) ==
  \E o \in deauthOutcomes(users, userId, signature) : answers(o)

NextStore ==
  \/ \E domain \in ApiDomains : pipedriveCallback(domain)
  \/ \E userId \in QbCallbackIds, numericUserId \in {NoStr, NumericId},
        realm \in Realms, expiresAt \in QbExpiries :
       qbCallback(userId, numericUserId, realm, expiresAt)
  \/ \E userId \in Ids : customersSearch(userId)
  \/ \E userId \in Ids : dealAddress(userId)
  \/ \E userId \in Ids : attachContact(userId)
  \/ \E userId \in Ids, numericUserId \in {NoStr, NumericId} :
       userStatus(userId, numericUserId)
  \/ \E userId \in Ids : disconnectQb(userId)
  \/ \E userId \in Ids, signature \in Signatures : deauth(userId, signature)

SpecStore ==
  InitStore /\ [][NextStore]_vars



\* =========================================================================
\* The setup session and the ShipStation credentials: the routes that read
\* and write setup_token, invoice_preferences and the ShipStation columns,
\* under a clock that moves.
\* =========================================================================
MaxSetupTicks ==
  4
SetupTickMin ==
  10

\* what the setup page and the settings page send
SetupIds ==
  {<<"a", "c">>, <<"https://", "a", "c">>}
RequestTokens ==
  SetupTokens \cup {<<"s2">>, NoStr}
Preferences ==
  {1, 2}
ShipStationInputs ==
  {Null, [apiKey |-> 51, apiSecret |-> 61]}

\* new Date(userData.setup_token_expires) < new Date()
setupTokenNeverExpires(ud, t) ==
  FALSE

setupTokenExpired(ud, t) ==
  ud.setup_token_expires # None /\ ud.setup_token_expires < t

\* the checks both /api/setup/preferences handlers run on the record
setupTokenCheck(ud, token, t) ==
  IF ud = Null THEN "404"
  ELSE IF ud.setup_token = NoStr \/ ud.setup_token # token THEN "403"
  ELSE IF setupTokenExpired(ud, t) THEN "403"
  ELSE "ok"

\* GET /api/setup/preferences
setupPreferencesGetOutcomes(table, userId, token) ==
  IF token = NoStr \/ userId = NoStr
  THEN {outcome("400", NoStr, None, None, table)}
  ELSE {outcome(setupTokenCheck(ud, token, now),
                pipedriveCallbackUserId(userId), None, None, table) :
          ud \in getUserResults(table, pipedriveCallbackUserId(userId))}

\* updatedData of POST /api/setup/preferences
setupUpdatedData(ud, preferences, shipstation) ==
  spread(spread(ud, [invoice_preferences |-> preferences,
                     setup_token         |-> NoStr,
                     setup_token_expires |-> None]),
         IF shipstation # Null
         THEN [shipstation_api_key    |-> encrypt(shipstation.apiKey),
               shipstation_api_secret |-> encrypt(shipstation.apiSecret)]
         ELSE << >>)

\* POST /api/setup/preferences
setupPreferencesPostOutcomes(table, userId, token, preferences, shipstation) ==
  IF token = NoStr \/ userId = NoStr
  THEN {outcome("400", NoStr, None, None, table)}
  ELSE {outcome(setupTokenCheck(ud, token, now),
                pipedriveCallbackUserId(userId), None, None,
                IF setupTokenCheck(ud, token, now) = "ok"
                THEN setUserTable(table, pipedriveCallbackUserId(userId),
                                  setupUpdatedData(ud, preferences, shipstation))
                ELSE table) :
          ud \in getUserResults(table, pipedriveCallbackUserId(userId))}

\* the lookups of POST /api/shipstation/save: the first record with an
\* accounting access token
RECURSIVE shipstationSaveTry(_, _, _)
shipstationSaveTry(table, ids, i) ==
  IF i > Len(ids) THEN {[user |-> Null, id |-> NoStr]}
  ELSE UNION {
         IF tryUserData # Null /\ tryUserData.qb_access_token # None
         THEN {[user |-> tryUserData, id |-> ids[i]]}
         ELSE shipstationSaveTry(table, ids, i + 1) :
         tryUserData \in getUserResults(table, ids[i])}

\* POST /api/shipstation/save
shipstationSaveOutcomes(table, userId, credentials) ==
  {IF found.user = Null
   THEN outcome("404", NoStr, None, None, table)
   ELSE outcome("ok", found.id, None, None,
                setUserTable(table, found.id,
                  spread(found.user,
                         [shipstation_api_key    |-> encrypt(credentials.apiKey),
                          shipstation_api_secret |-> encrypt(credentials.apiSecret)]))) :
     found \in shipstationSaveTry(table, possibleIds(userId), 1)}

\* time passes between two requests
TickSetup ==
  /\ now + SetupTickMin <= StartNow + MaxSetupTicks * SetupTickMin
  /\ now' = now + SetupTickMin
  /\ UNCHANGED <<store, provGen, pc, userData, currentUserData, refreshedData, trace, result, polls>>
  /\ UNCHANGED <<storeVars, bootVars, cipherVars, crmVars, shipVars>>

NextSetup ==
  \/ pipedriveCallback(DomainAc)
  \/ \E userId \in SetupIds, expiresAt \in QbExpiries :
       qbCallback(userId, NoStr, 1, expiresAt)
  \/ \E userId \in SetupIds, token \in RequestTokens :
       \E o \in setupPreferencesGetOutcomes(users, userId, token) : answers(o)
  \/ \E userId \in SetupIds, token \in RequestTokens,
        preferences \in Preferences, shipstation \in ShipStationInputs :
       \E o \in setupPreferencesPostOutcomes(users, userId, token,
                                             preferences, shipstation) :
         answers(o)
  \/ \E userId \in SetupIds, credentials \in ShipStationInputs \ {Null} :
       \E o \in shipstationSaveOutcomes(users, userId, credentials) : answers(o)
  \/ \E userId \in SetupIds : userStatus(userId, NoStr)
  \/ TickSetup

SpecSetup ==
  InitStore /\ [][NextSetup]_vars


\* ------------------------------------------------- two writers, one record
\* Each route reads the record with getUser, awaits, and later hands the
\* whole record back to setUser, whose UPDATE binds every column.
RaceId ==
  <<"a", "c">>

\* const userData = await getUser(userId) of a route
raceGetUser(h) ==
  /\ pc[h] = "idle"
  /\ \E ud \in getUserResults(users, RaceId) :
       /\ ud # Null
       /\ userData' = [userData EXCEPT ![h] = ud]
  /\ pc' = [pc EXCEPT ![h] = "read"]
  /\ UNCHANGED <<store, now, provGen, currentUserData, refreshedData, trace,
                 result, polls>>
  /\ UNCHANGED <<storeVars, bootVars, cipherVars, crmVars, shipVars>>

\* refreshAndSaveToken(userId, userData) for the record read earlier:
\* setUser(userId, { ...userData, the new pair })
raceRefreshAndSave(h) ==
  /\ pc[h] = "read"
  /\ \E table \in refreshAndSaveTables(users, RaceId, userData[h]) :
       users' = table
  /\ pc' = [pc EXCEPT ![h] = "idle"]
  /\ userData' = [userData EXCEPT ![h] = NoUserData]
  /\ UNCHANGED <<store, now, provGen, currentUserData, refreshedData, trace,
                 result, polls>>
  /\ UNCHANGED <<bootVars, cipherVars, crmVars, shipVars>>

\* POST /api/shipstation/save after its getUser:
\* setUser(foundUserId, { ...userData, the two credentials })
raceShipstationSave(h, credentials) ==
  /\ pc[h] = "read"
  /\ userData[h].qb_access_token # None
  /\ users' = setUserTable(users, RaceId,
                spread(userData[h],
                       [shipstation_api_key    |-> encrypt(credentials.apiKey),
                        shipstation_api_secret |-> encrypt(credentials.apiSecret)]))
  /\ pc' = [pc EXCEPT ![h] = "idle"]
  /\ userData' = [userData EXCEPT ![h] = NoUserData]
  /\ UNCHANGED <<store, now, provGen, currentUserData, refreshedData, trace,
                 result, polls>>
  /\ UNCHANGED <<bootVars, cipherVars, crmVars, shipVars>>

\* POST /api/setup/preferences after its getUser and its token checks:
\* setUser(normalizedUserId, { ...userData, the preferences })
racePreferencesSave(h, token, preferences) ==
  /\ pc[h] = "read"
  /\ setupTokenCheck(userData[h], token, now) = "ok"
  /\ users' = setUserTable(users, RaceId,
                           setupUpdatedData(userData[h], preferences, Null))
  /\ pc' = [pc EXCEPT ![h] = "idle"]
  /\ userData' = [userData EXCEPT ![h] = NoUserData]
  /\ UNCHANGED <<store, now, provGen, currentUserData, refreshedData, trace,
                 result, polls>>
  /\ UNCHANGED <<bootVars, cipherVars, crmVars, shipVars>>

\* the tenant has connected the CRM and QuickBooks
connectedTables ==
  UNION {{o.table : o \in qbCallbackOutcomes(p.table, RaceId, NoStr, 1,
                                             StartNow + 2)} :
           p \in pipedriveCallbackOutcomes({}, DomainAc)}

InitRace ==
  /\ store = [qb_access_token  |-> encrypt(AT(1)),
              qb_refresh_token |-> encrypt(RT(1)),
              qb_expires_at    |-> StartNow + ExpiresInMin]
  /\ now = StartNow
  /\ provGen = 1
  /\ pc = [p \in Procs |-> "idle"]
  /\ userData = [p \in Procs |-> NoUserData]
  /\ currentUserData = [p \in Procs |-> NoUserData]
  /\ refreshedData = [p \in Procs |-> NoUserData]
  /\ trace = [p \in Procs |-> << >>]
  /\ result = [p \in Procs |-> "none"]
  /\ polls = 0
  /\ users \in connectedTables
  /\ secret = SecretLens[3]
  /\ server = "listening"
  /\ cipher = NoCall
  /\ crm = NoCrmCall
  /\ ship = NoShip

NextRace ==
  \/ \E h \in Handlers : raceGetUser(h)
  \/ \E h \in Handlers : raceRefreshAndSave(h)
  \/ \E h \in Handlers, credentials \in ShipStationInputs \ {Null} :
       raceShipstationSave(h, credentials)
  \/ \E h \in Handlers, token \in SetupTokens, preferences \in Preferences :
       racePreferencesSave(h, token, preferences)

SpecRace ==
  InitRace /\ [][NextRace]_vars

\* ------------------------------------------------- encryption.js on strings
\* A string is a sequence of pieces: a character (code unit), [ch |-> c],
\* or the hex spelling of a buffer, [hex |-> bytes].
MaxTextLen ==
  2

LoneSurrogate ==
  [ch |-> "\\uD800"]

ReplacementChar ==
  [ch |-> "\\uFFFD"]

Colon ==
  [ch |-> ":"]

LetterA ==
  [ch |-> "a"]

LetterEAcute ==
  [ch |-> "e'"]

Chars ==
  {LetterA, LetterEAcute, Colon, LoneSurrogate}

Texts ==
  UNION {[1..n -> Chars] : n \in 0..MaxTextLen}

\* sha256 digests of two secrets that are long enough
Keys ==
  {1, 2}

\* crypto.randomBytes(IV_LENGTH)
IVs ==
  {<<3>>, <<4>>}

\* the 'utf8' input encoding of cipher.update: an unpaired surrogate is
\* written as the bytes of U+FFFD
utf8BytesOf(c) ==
  IF c = LetterA THEN <<97>>
  ELSE IF c = Colon THEN <<58>>
  ELSE IF c = LetterEAcute THEN <<195, 169>>
  ELSE <<239, 191, 189>>

RECURSIVE utf8Write(_)
utf8Write(text) ==
  IF text = << >> THEN << >>
  ELSE utf8BytesOf(Head(text)) \o utf8Write(Tail(text))

\* the 'utf8' output encoding of decipher.update / final
RECURSIVE utf8Read(_)
utf8Read(bytes) ==
  IF bytes = << >> THEN << >>
  ELSE IF Head(bytes) = 97 THEN <<LetterA>> \o utf8Read(Tail(bytes))
  ELSE IF Head(bytes) = 58 THEN <<Colon>> \o utf8Read(Tail(bytes))
  ELSE IF Len(bytes) >= 2 /\ bytes[1] = 195 /\ bytes[2] = 169
  THEN <<LetterEAcute>> \o utf8Read(SubSeq(bytes, 3, Len(bytes)))
  ELSE IF Len(bytes) >= 3 /\ bytes[1] = 239 /\ bytes[2] = 191 /\ bytes[3] = 189
  THEN <<ReplacementChar>> \o utf8Read(SubSeq(bytes, 4, Len(bytes)))
  ELSE <<ReplacementChar>> \o utf8Read(Tail(bytes))

\* aes-256-gcm: a keystream over the bytes and a tag over key, iv and
\* ciphertext
keystream(key, iv, i) ==
  (16 * key + iv[1] + i) % 256

cipherUpdate(key, iv, bytes) ==
  [i \in 1..Len(bytes) |-> (bytes[i] + keystream(key, iv, i)) % 256]

decipherUpdateKeepsBytes(key, iv, bytes) ==
  bytes

decipherUpdate(key, iv, bytes) ==
  [i \in 1..Len(bytes) |-> (bytes[i] + 256 - keystream(key, iv, i)) % 256]

RECURSIVE sumBytes(_)
sumBytes(bytes) ==
  IF bytes = << >> THEN 0 ELSE Head(bytes) + sumBytes(Tail(bytes))

getAuthTag(key, iv, encrypted) ==
  <<(31 * key + iv[1] + sumBytes(encrypted)) % 256>>

toHex(bytes) ==
  [hex |-> bytes]

\* Buffer.from(string, 'hex'): the bytes of a hex spelling, nothing for a
\* string that does not start with two hex digits
fromHex(segment) ==
  IF Len(segment) = 1 /\ "hex" \in DOMAIN segment[1] THEN segment[1].hex ELSE << >>

\* String.prototype.split(':')
RECURSIVE split(_)
split(string) ==
  IF \A i \in 1..Len(string) : string[i] # Colon THEN <<string>>
  ELSE LET at == CHOOSE i \in 1..Len(string) :
                   string[i] = Colon /\ \A j \in 1..(i - 1) : string[j] # Colon
       IN <<SubSeq(string, 1, at - 1)>>
            \o split(SubSeq(string, at + 1, Len(string)))

\* encrypt(text): null for an empty text, iv:tag:ciphertext otherwise
encryptString(key, iv, text) ==
  IF text = << >> THEN << >>
  ELSE <<toHex(iv), Colon,
         toHex(getAuthTag(key, iv, cipherUpdate(key, iv, utf8Write(text)))),
         Colon,
         toHex(cipherUpdate(key, iv, utf8Write(text)))>>

\* what the try block of decrypt throws on: an empty iv (createDecipheriv),
\* an empty tag (setAuthTag), a tag that does not verify (final)
decipherThrows(key, parts) ==
  \/ fromHex(parts[1]) = << >>
  \/ fromHex(parts[2]) = << >>
  \/ fromHex(parts[2])
       # getAuthTag(key, fromHex(parts[1]), fromHex(parts[3]))

returned(value) ==
  [raised |-> FALSE, value |-> value]

\* the catch block of decrypt: log and return the input
decryptCatchRethrows(encryptedData) ==
  [raised |-> TRUE, value |-> << >>]

decryptCatch(encryptedData) ==
  returned(encryptedData)

decryptParts(key, encryptedData, parts) ==
  IF Len(parts) # 3 THEN returned(encryptedData)
  ELSE IF decipherThrows(key, parts) THEN decryptCatch(encryptedData)
  ELSE returned(utf8Read(decipherUpdate(key, fromHex(parts[1]),
                                        fromHex(parts[3]))))

decryptString(key, encryptedData) ==
  IF encryptedData = << >> THEN returned(<< >>)
  ELSE decryptParts(key, encryptedData, split(encryptedData))

\* what a column can hold besides the envelopes this key produced: legacy
\* plaintext with any number of colons, an envelope written under another
\* key, an envelope whose tag or ciphertext was altered
storedStrings(key) ==
  Texts
    \cup {<<LetterA, Colon, LetterA, Colon, LetterA>>}
    \cup {encryptString(k, iv, text) :
            k \in Keys \ {key}, iv \in IVs, text \in Texts \ {<< >>}}
    \cup {[encryptString(key, iv, text) EXCEPT ![3] = toHex(<<7>>)] :
            iv \in IVs, text \in Texts \ {<< >>}}
    \cup {[encryptString(key, iv, text) EXCEPT ![5] = toHex(<<7>> \o @.hex)] :
            iv \in IVs, text \in Texts \ {<< >>}}

InitCipher ==
  /\ store = [qb_access_token  |-> encrypt(AT(1)),
              qb_refresh_token |-> encrypt(RT(1)),
              qb_expires_at    |-> StartNow + ExpiresInMin]
  /\ now = StartNow
  /\ provGen = 1
  /\ pc = [p \in Procs |-> "idle"]
  /\ userData = [p \in Procs |-> NoUserData]
  /\ currentUserData = [p \in Procs |-> NoUserData]
  /\ refreshedData = [p \in Procs |-> NoUserData]
  /\ trace = [p \in Procs |-> << >>]
  /\ result = [p \in Procs |-> "none"]
  /\ polls = 0
  /\ users = {}
  /\ secret = SecretLens[3]
  /\ server = "listening"
  /\ \E key \in Keys : cipher = [NoCall EXCEPT !.key = key]
  /\ crm = NoCrmCall
  /\ ship = NoShip

\* encrypt(text)
encryptCall ==
  /\ \E text \in Texts, iv \in IVs :
       cipher' = [op |-> "encrypt", key |-> cipher.key, text |-> text,
                  data |-> encryptString(cipher.key, iv, text),
                  value |-> << >>, raised |-> FALSE]
  /\ UNCHANGED <<tokenVars, storeVars, bootVars, crmVars, shipVars>>

\* decrypt(encrypt(text))
decryptCall ==
  /\ cipher.op = "encrypt"
  /\ cipher' = [cipher EXCEPT
                  !.op = "decrypt",
                  !.value = decryptString(cipher.key, cipher.data).value,
                  !.raised = decryptString(cipher.key, cipher.data).raised]
  /\ UNCHANGED <<tokenVars, storeVars, bootVars, crmVars, shipVars>>

\* decrypt of a column this key did not write
decryptStored ==
  /\ \E data \in storedStrings(cipher.key) :
       cipher' = [op |-> "decryptStored", key |-> cipher.key, text |-> << >>,
                  data |-> data,
                  value |-> decryptString(cipher.key, data).value,
                  raised |-> decryptString(cipher.key, data).raised]
  /\ UNCHANGED <<tokenVars, storeVars, bootVars, crmVars, shipVars>>

NextCipher ==
  \/ encryptCall
  \/ decryptCall
  \/ decryptStored

SpecCipher ==
  InitCipher /\ [][NextCipher]_vars

\* ------------------------------------------------------------------ startup
\* startServer: the schema is applied and the port opened; the process
\* exits only when initializeDatabase throws.  Nothing on this path calls
\* getEncryptionKey.
startServer ==
  /\ server = "starting"
  /\ \E databaseUp \in BOOLEAN :
       server' = IF databaseUp THEN "listening" ELSE "exited"
  /\ UNCHANGED <<tokenVars, storeVars, secret, cipherVars, crmVars, shipVars>>

\* the deployment is started again, with the secrets it has by then
restart ==
  /\ server \in {"listening", "exited"}
  /\ server' = "starting"
  /\ \E i \in DOMAIN SecretLens : secret' = SecretLens[i]
  /\ UNCHANGED <<tokenVars, storeVars, cipherVars, crmVars, shipVars>>

\* decrypt as rowToUserData calls it: getEncryptionKey is called inside the
\* try block, so without a usable key the stored value comes back as it is
rowToUserDataWithKey(secretLen, row) ==
  IF row = Null THEN Null
  ELSE IF getEncryptionKeyThrows(secretLen)
  THEN spread(rowToUserDataOf(row),
              [pipedrive_access_token  |-> row.pipedrive_access_token,
               access_token            |-> row.pipedrive_access_token,
               pipedrive_refresh_token |-> row.pipedrive_refresh_token,
               refresh_token           |-> row.pipedrive_refresh_token,
               qb_access_token         |-> row.qb_access_token,
               qb_refresh_token        |-> row.qb_refresh_token])
  ELSE rowToUserDataOf(row)

getUserWithKey(table, secretLen, userId) ==
  {rowToUserDataWithKey(secretLen, r) : r \in getUserRows(table, userId)}

\* encrypt as setUser calls it: an empty value is answered null before the
\* key is asked for, any other value needs the key
setUserThrowsWithKey(secretLen, data) ==
  \/ setUserThrows(data)
  \/ /\ getEncryptionKeyThrows(secretLen)
     /\ \/ Or(Get(data, "pipedrive_access_token"), Get(data, "access_token")) # None
        \/ Or(Get(data, "pipedrive_refresh_token"), Get(data, "refresh_token")) # None
        \/ Get(data, "qb_access_token") # None
        \/ Get(data, "qb_refresh_token") # None

\* a request the listening server answers; the callbacks write tokens, so
\* without a usable key their setUser throws and the table stays as it is
answersWithKey(o, data) ==
  /\ server = "listening"
  /\ Cardinality(o.table) <= MaxRows
  /\ users' = IF setUserThrowsWithKey(secret, data) THEN users ELSE o.table
  /\ UNCHANGED <<tokenVars, bootVars, cipherVars, crmVars, shipVars>>

InitBoot ==
  /\ store = [qb_access_token  |-> encrypt(AT(1)),
              qb_refresh_token |-> encrypt(RT(1)),
              qb_expires_at    |-> StartNow + ExpiresInMin]
  /\ now = StartNow
  /\ provGen = 1
  /\ pc = [p \in Procs |-> "idle"]
  /\ userData = [p \in Procs |-> NoUserData]
  /\ currentUserData = [p \in Procs |-> NoUserData]
  /\ refreshedData = [p \in Procs |-> NoUserData]
  /\ trace = [p \in Procs |-> << >>]
  /\ result = [p \in Procs |-> "none"]
  /\ polls = 0
  /\ users = {}
  /\ \E i \in DOMAIN SecretLens : secret = SecretLens[i]
  /\ server = "starting"
  /\ cipher = NoCall
  /\ crm = NoCrmCall
  /\ ship = NoShip

NextBoot ==
  \/ startServer
  \/ restart
  \/ \E domain \in ApiDomains :
       \E o \in pipedriveCallbackOutcomes(users, domain) :
         answersWithKey(o, pipedriveCallbackData(users, domain))
  \/ \E userId \in QbCallbackIds, realm \in Realms, expiresAt \in QbExpiries :
       \E o \in qbCallbackOutcomes(users, userId, NoStr, realm, expiresAt) :
         answersWithKey(o, [qb_access_token |-> AT(realm)])

SpecBoot ==
  InitBoot /\ [][NextBoot]_vars

\* ----------------------------------------------------- reading the table
keysOf(table) ==
  {r.pipedrive_user_id : r \in table}

rowsOfKey(table, key) ==
  {r \in table : r.pipedrive_user_id = key}

qbTokenColumns(row) ==
  <<row.qb_access_token, row.qb_refresh_token, row.qb_realm_id>>

qbColumns(row) ==
  <<row.qb_access_token, row.qb_refresh_token, row.qb_realm_id,
    row.qb_expires_at>>

crmColumns(row) ==
  <<row.pipedrive_access_token, row.pipedrive_refresh_token,
    row.pipedrive_expires_at, row.pipedrive_api_domain>>

hasCrmTokens(row) ==
  row.pipedrive_access_token # None

\* an identifier matches a record by one of the rules of the lookups: one
\* of its spellings is the key, or the identifier and the key or the
\* api_domain of the record contain one another
matchesByAnyRule(row, id) ==
  \/ normalizeUserId(row.pipedrive_user_id) = normalizeUserId(id)
  \/ \E k \in 1..Len(possibleIds(id)) :
       possibleIds(id)[k] = row.pipedrive_user_id
  \/ includes(row.pipedrive_user_id, normalizeUserId(id))
  \/ includes(normalizeUserId(id), row.pipedrive_user_id)
  \/ ilike(row.pipedrive_api_domain, normalizeUserId(id))
  \/ (row.pipedrive_api_domain # NoStr
        /\ includes(id, replaceFirst(row.pipedrive_api_domain, "https://")))

matchesNoRecord(table, id) ==
  \A row \in table : ~matchesByAnyRule(row, id)

\* C11: when the identifier of a request matches no stored record by any
\* rule, /api/customers/search, /api/pipedrive/deal-address and
\* /api/attach-contact answer "not connected", use no record and leave the
\* table as it was.
C11_NoMatchNotConnected ==
  \A id \in Ids :
    matchesNoRecord(users, id) =>
      \A o \in customersSearchOutcomes(users, id)
                 \cup dealAddressOutcomes(users, id)
                 \cup attachContactOutcomes(users, id) :
        /\ o.status = "not connected"
        /\ o.table = users

\* C12: /api/attach-contact changes the accounting tokens of a record A
\* only by copying those of a record B with the same api_domain, and only
\* when A has no realm id or the realm id of B; otherwise the accounting
\* fields of every record stay as they were, and no record is added.
C12_MergeOnlySameDomain ==
  \A id \in Ids :
    \A o \in attachContactOutcomes(users, id) :
      /\ keysOf(o.table) = keysOf(users)
      /\ \A A \in users :
           \A after \in rowsOfKey(o.table, A.pipedrive_user_id) :
             \/ qbColumns(after) = qbColumns(A)
             \/ \E B \in users :
                  /\ B.pipedrive_user_id # A.pipedrive_user_id
                  /\ A.pipedrive_api_domain # NoStr
                  /\ B.pipedrive_api_domain = A.pipedrive_api_domain
                  /\ qbTokenColumns(after) = qbTokenColumns(B)
                  /\ (A.qb_realm_id = None \/ A.qb_realm_id = B.qb_realm_id)

\* C13: once /api/user-status or /api/disconnect-qb has resolved a record,
\* what it writes goes to a row that was there before: the request adds no
\* row to the table.
C13_WritesAddNoRow ==
  \A id \in Ids :
    \A o \in userStatusOutcomes(users, id, NoStr)
               \cup disconnectQbOutcomes(users, id) :
      keysOf(o.table) = keysOf(users)

\* C14: a record stored under a canonical key K (a key normalizeUserId
\* leaves as it is) is what getUser returns for K, K.pipedrive.com,
\* http://K, https://K and https://K.pipedrive.com, whatever else is in the
\* table.
C14_VariantsResolveToRecord ==
  \A row \in users :
    normalizeUserId(row.pipedrive_user_id) = row.pipedrive_user_id =>
      \A id \in variants(row.pipedrive_user_id) :
        getUserResults(users, id) = {rowToUserDataOf(row)}

\* C15: after /auth/qb/callback stored the tokens together with a numeric
\* user id, /api/user-status finds the same record under the numeric id
\* as under the key of the record.
C15_NumericIdResolves ==
  \A userId \in QbCallbackIds, realm \in Realms, expiresAt \in QbExpiries :
    \A cb \in qbCallbackOutcomes(users, userId, NumericId, realm, expiresAt) :
      \A byNumber \in userStatusOutcomes(cb.table, NumericId, NumericId),
         byKey \in userStatusOutcomes(cb.table, cb.actualUserId, NoStr) :
        /\ byNumber.status = byKey.status
        /\ normalizeUserId(byNumber.actualUserId)
             = normalizeUserId(byKey.actualUserId)

\* C16: when /api/attach-contact finds nothing under the identifier and no
\* related record in its scan, the record it goes on with is, of the
\* records with CRM tokens, the one created last.
C16_FreshestIsNewest ==
  \A id \in Ids :
    (/\ \A ud \in getUserResults(users, id) :
          ud = Null \/ ud.access_token = None
     /\ \A row \in users :
          hasCrmTokens(row)
            => ~isRelated(row.pipedrive_user_id, rowToUserDataOf(row), id))
    => \A o \in attachContactOutcomes(users, id) :
         o.status = "ok" =>
           \A chosen \in rowsOfKey(users, o.actualUserId) :
             \A row \in users :
               hasCrmTokens(row) => row.created_at <= chosen.created_at

\* C17: setUser on an existing key leaves the columns alone whose fields
\* the data object does not carry: after /auth/pipedrive/callback wrote
\* the CRM fields of a company again, its accounting columns are as before.
C17_AbsentFieldsKept ==
  \A domain \in ApiDomains :
    \A o \in pipedriveCallbackOutcomes(users, domain) :
      \A row \in rowsOfKey(users, o.actualUserId) :
        \A after \in rowsOfKey(o.table, o.actualUserId) :
          qbColumns(after) = qbColumns(row)

\* C18: getUser returns a record only when the identifier, its normalized
\* form or the normalized form with .pipedrive.com is the key of the
\* record.
C18_OnlyExactKeys ==
  \A id \in Ids :
    \A row \in getUserRows(users, id) :
      row # Null =>
        row.pipedrive_user_id
          \in {id, normalizeUserId(id), normalizeUserId(id) \o <<Suffix>>}

\* C19: a successful /api/disconnect-qb clears the accounting tokens, realm
\* id and expiry of a record that had them, leaves the CRM fields of that
\* record alone, and neither removes nor adds a record.
C19_DisconnectClearsAccounting ==
  \A id \in Ids :
    \A o \in disconnectQbOutcomes(users, id) :
      o.status = "ok" =>
        /\ keysOf(o.table) = keysOf(users)
        /\ \E row \in users :
             /\ row.qb_access_token # None
             /\ \A after \in rowsOfKey(o.table, row.pipedrive_user_id) :
                  /\ qbColumns(after) = <<None, None, None, None>>
                  /\ crmColumns(after) = crmColumns(row)

\* C20: after a /deauth request with a valid signature whose user id
\* resolves to a record, that record is gone from the table.
C20_DeauthDeletesRecord ==
  \A id \in Ids :
    \A o \in deauthOutcomes(users, id, "valid") :
      \A row \in getUserRows(users, id) :
        row # Null => row.pipedrive_user_id \notin keysOf(o.table)

secretColumns(row) ==
  {row.pipedrive_access_token, row.pipedrive_refresh_token,
   row.qb_access_token, row.qb_refresh_token,
   row.shipstation_api_key, row.shipstation_api_secret}

\* C22: whatever the routes did, every secret column of every row that is
\* not null holds an encrypt() envelope, never the secret itself.
C22_SecretsStoredEncrypted ==
  \A row \in users :
    \A column \in secretColumns(row) :
      column # None => column >= EncOffset /\ decrypt(column) < EncOffset

\* a row that holds CRM tokens, accounting tokens and ShipStation
\* credentials, written by three different routes
C22_Witness ==
  \E row \in users :
    \A column \in secretColumns(row) : column # None

\* what the two /api/setup/preferences handlers can answer to a request
setupAnswers(userId, token) ==
  setupPreferencesGetOutcomes(users, userId, token)
    \cup UNION {setupPreferencesPostOutcomes(users, userId, token,
                                             preferences, shipstation) :
                  preferences \in Preferences,
                  shipstation \in ShipStationInputs}

\* the token is the setup token of a record and at most SetupTokenMin
\* minutes old
setupTokenInWindow(token) ==
  \E row \in users :
    /\ row.setup_token # NoStr
    /\ row.setup_token = token
    /\ row.setup_token_expires # None
    /\ now <= row.setup_token_expires
    /\ row.setup_token_expires <= now + SetupTokenMin

\* C30: GET and POST /api/setup/preferences accept a request only with the
\* setup token of a record within 30 minutes of its issue; every other
\* request (expired, missing or different token) is answered 403 and
\* leaves the table as it was.
C30_SetupTokenWindow ==
  \A userId \in SetupIds, token \in RequestTokens :
    \A o \in setupAnswers(userId, token) :
      IF o.status = "ok"
      THEN setupTokenInWindow(token)
      ELSE o.status = "403" /\ o.table = users

\* C30 as the code has it: a request is accepted only with the setup token
\* of a record within 30 minutes of its issue; a request without a token is
\* answered 400, one for which no record is found 404, one with a different
\* or an expired token 403, and none of these changes the table.
C30_SetupTokenWindowOrRejected ==
  \A userId \in SetupIds, token \in RequestTokens :
    \A o \in setupAnswers(userId, token) :
      /\ o.status = "ok" => setupTokenInWindow(token)
      /\ o.status # "ok" => o.status \in {"400", "403", "404"} /\ o.table = users
      /\ token = NoStr => o.status = "400"
      /\ (token # NoStr /\ users # {} /\ ~setupTokenInWindow(token))
           => o.status = "403"

\* a record holds a setup token whose 30 minutes are over, and a request
\* that presents it is turned away
C30_Witness ==
  \E row \in users :
    /\ row.setup_token # NoStr
    /\ row.setup_token_expires < now
    /\ \E o \in setupAnswers(row.pipedrive_user_id, row.setup_token) :
         o.status = "403"

\* C26: every makeQBApiCall that was started eventually returns, also when
\* the provider never answers the refresh request.
C26_CallReturns ==
  \A h \in Handlers : (pc[h] = "start") ~> (pc[h] = "done")

\* C28: every request a route sends to QuickBooks goes through
\* makeQBApiCall: the expiry of the token was checked before the request,
\* and a 401 answer is followed by a refresh request unless the record has
\* no refresh token.
C28_EveryRequestThroughMakeQBApiCall ==
  \A h \in Handlers :
    \A i \in ApiCalls(h) :
      /\ Indices(h, "check") # {}
      /\ \A c \in Indices(h, "check") : c < i
      /\ (i = Len(trace[h]) /\ trace[h][i].out = "401" /\ pc[h] = "done")
           => result[h] \in {"sessionExpired", "retryUnauthorized"}

\* the created_at column of every row that stays in the table stays as it is
createdAtKept ==
  \A row \in users :
    \A after \in users' :
      after.pipedrive_user_id = row.pipedrive_user_id
        => after.created_at = row.created_at

\* C29: created_at is set when a row is inserted and no write changes it
\* afterwards, and a record read back with getUser carries the creation
\* time of its row.
C29_CreatedAtCarried ==
  /\ [][createdAtKept]_vars
  /\ [](\A id \in Ids :
          \A ud \in getUserResults(users, id) :
            ud # Null
              => \E row \in getUserRows(users, id) :
                   Get(ud, "created_at") = row.created_at)

\* C23: with the secret absent or shorter than 16 characters the server
\* fails at startup: it is never listening, no getUser returns a record and
\* no setUser writes a row without a usable key.
C23_NoServiceWithoutKey ==
  getEncryptionKeyThrows(secret) =>
    /\ server # "listening"
    /\ \A id \in Ids : \A ud \in getUserWithKey(users, secret, id) : ud = Null
    /\ \A domain \in ApiDomains :
         setUserThrowsWithKey(secret, pipedriveCallbackData(users, domain))

\* C24: under one valid secret, decrypt(encrypt(x)) is x for every
\* non-empty string x.
C24_RoundTrip ==
  (cipher.op = "decrypt" /\ cipher.text # << >>)
    => ~cipher.raised /\ cipher.value = cipher.text

\* x with every unpaired surrogate replaced by U+FFFD
wellFormed(text) ==
  [i \in 1..Len(text) |->
     IF text[i] = LoneSurrogate THEN ReplacementChar ELSE text[i]]

\* C24 as the code has it: decrypt(encrypt(x)) is x for every non-empty
\* string x without unpaired surrogates; an unpaired surrogate comes back
\* as U+FFFD.
C24_RoundTripWellFormed ==
  (cipher.op = "decrypt" /\ cipher.text # << >>)
    => /\ ~cipher.raised
       /\ cipher.value = wellFormed(cipher.text)
       /\ (\A i \in 1..Len(cipher.text) : cipher.text[i] # LoneSurrogate)
            => cipher.value = cipher.text

\* a two-character text with a multi-byte character and a colon came back
C24_Witness ==
  /\ cipher.op = "decrypt"
  /\ cipher.text = <<LetterEAcute, Colon>>
  /\ cipher.value = cipher.text

\* C25: decrypt never raises; for an input that does not split into three
\* colon-separated segments, or whose tag does not verify, it returns the
\* input unchanged.
C25_DecryptNeverRaises ==
  cipher.op \in {"decrypt", "decryptStored"}
    => /\ ~cipher.raised
       /\ (\/ Len(split(cipher.data)) # 3
           \/ decipherThrows(cipher.key, split(cipher.data)))
            => cipher.value = cipher.data

\* decrypt was given a three-segment envelope whose tag does not verify
C25_Witness ==
  /\ cipher.op = "decryptStored"
  /\ Len(split(cipher.data)) = 3
  /\ fromHex(split(cipher.data)[1]) # << >>
  /\ fromHex(split(cipher.data)[2]) # << >>
  /\ decipherThrows(cipher.key, split(cipher.data))
  /\ cipher.value = cipher.data

\* the accounting token columns of the rows
tokenColumns(table) ==
  {<<r.pipedrive_user_id, r.qb_access_token, r.qb_refresh_token,
     r.qb_expires_at>> : r \in table}

\* the columns the ShipStation and the preferences routes write
otherColumns(table) ==
  {<<r.pipedrive_user_id, r.shipstation_api_key, r.shipstation_api_secret,
     r.invoice_preferences, r.setup_token>> : r \in table}

\* C27: when a token refresh and another write for the same tenant
\* interleave, neither write reverts a field it did not set out to change:
\* the write of a refresh leaves the other routes' columns as they are in
\* the table, and the write of the other routes leaves the token columns
\* as they are in the table.
C27_WritesKeepOtherFields ==
  [][/\ (\E h \in Handlers : raceRefreshAndSave(h))
          => otherColumns(users') = otherColumns(users)
     /\ (\E h \in Handlers, credentials \in ShipStationInputs \ {Null} :
           raceShipstationSave(h, credentials))
          => tokenColumns(users') = tokenColumns(users)
     /\ (\E h \in Handlers, token \in SetupTokens, preferences \in Preferences :
           racePreferencesSave(h, token, preferences))
          => tokenColumns(users') = tokenColumns(users)]_vars

\* C40: tokenNeedsRefresh answers true exactly when the stored expiry is
\* less than 10 minutes after the current time, or the expiry is unknown
\* and a refresh token exists; with an unknown expiry and no refresh token
\* it answers false.
C40_NeedsRefreshExactly ==
  \A h \in Handlers :
    pc[h] = "start" =>
      /\ tokenNeedsRefresh(userData[h], now)
           <=> \/ /\ userData[h].qb_expires_at # None
                  /\ userData[h].qb_expires_at < now + 10
               \/ /\ userData[h].qb_expires_at = None
                  /\ userData[h].qb_refresh_token # None
      /\ (userData[h].qb_expires_at = None /\ userData[h].qb_refresh_token = None)
           => ~tokenNeedsRefresh(userData[h], now)

\* a handler is about to check a record that expires exactly 10 minutes
\* from now, and the check answers false
C40_Witness ==
  \E h \in Handlers :
    /\ pc[h] = "start"
    /\ userData[h].qb_expires_at = now + 10
    /\ ~tokenNeedsRefresh(userData[h], now)

\* C35: within one request that runs several makeQBApiCall invocations, a
\* later invocation never submits a refresh token that an earlier
\* invocation of the same request already exchanged.
C35_LaterInvocationUsesRefresh ==
  \A h \in Handlers :
    \A i \in RefreshReqs(h), j \in RefreshReqs(h) :
      (/\ i < Len(trace[h])
       /\ trace[h][i + 1].ev = "refreshResp" /\ trace[h][i + 1].out = "ok"
       /\ \E c \in Indices(h, "check") : i < c /\ c < j)
        => trace[h][j].tok # trace[h][i].tok

\* C32: /auth/qb/callback writes the accounting tokens obtained for the
\* identifier of the OAuth state only to a record that matches that
\* identifier (what getUser finds for it), or to a new record under it;
\* never to a record of another tenant picked by scanning all records.
C32_QbTokensToMatchingRecord ==
  \A userId \in QbCallbackIds, realm \in Realms, expiresAt \in QbExpiries :
    \A o \in qbCallbackOutcomes(users, userId, NoStr, realm, expiresAt) :
      \A row \in o.table \ users :
        \/ /\ row.pipedrive_user_id = normalizeUserId(userId)
           /\ \A r \in users : r.pipedrive_user_id # row.pipedrive_user_id
        \/ \E r \in getUserRows(users, userId) :
             r # Null /\ r.pipedrive_user_id = row.pipedrive_user_id

\* C34: after /api/disconnect-qb answered success for an identifier, a
\* following /api/user-status for the same identifier reports not
\* connected, whatever keys and api_domain values are stored, also when the
\* disconnect found its record through the api_domain fallback of getUser.
C34_DisconnectedThenNotConnected ==
  \A id \in Ids :
    \A o \in disconnectQbOutcomes(users, id) :
      o.status = "ok" =>
        \A after \in userStatusOutcomes(o.table, id, NoStr) :
          after.status # "connected"

\* ------------------------------------------- calling the CRM (index.js)
MaxCrmGen ==
  2
MaxCrmCalls ==
  2
CrmGenStep ==
  NumRealms

\* the pair the CRM issued to tenant t at its g-th refresh
crmAccessToken(t, g) ==
  PAT(t) + CrmGenStep * g
crmRefreshToken(t, g) ==
  PRT(t) + CrmGenStep * g

\* the CRM answers 200 to the access token it honours and 401 to every
\* other one; a request can also fail for another reason
crmApiStatuses(t, g, live, accessToken) ==
  (IF live /\ accessToken = crmAccessToken(t, g) THEN {"200"} ELSE {"401"})
    \cup {"500"}

\* refreshToken(refreshTokenValue): response.data of the token endpoint, or
\* the error it answered with
crmRefreshOutcomes(t, g, refreshTokenValue) ==
  (IF refreshTokenValue = crmRefreshToken(t, g) THEN {"ok"} ELSE {})
    \cup {"error"}

\* error.response?.status === 401 && userData.refresh_token && retryCount === 0
mayRefreshOnEvery401(status, ud, retryCount) ==
  status = "401" /\ ud.refresh_token # None

mayRefresh(status, ud, retryCount) ==
  status = "401" /\ ud.refresh_token # None /\ retryCount = 0

\* the record /api/pipedrive/deal-address goes on with, and its key
dealAddressFinds(table, userId) ==
  {IF first = Null \/ first.access_token = None
   THEN dealAddressScan(table, order, 1, first, userId)
   ELSE [user |-> first, id |-> userId] :
   first \in getUserResults(table, userId), order \in listUsers(table)}

crmTenantOf(ud) ==
  crmTenant(ud.api_domain)

\* the tables one CRM callback leaves behind, and the same row after a
\* legacy import without a refresh token
crmTables ==
  UNION {{o.table,
          {[r EXCEPT !.pipedrive_refresh_token = None] : r \in o.table}} :
         o \in UNION {pipedriveCallbackOutcomes({}, d) : d \in ApiDomains}}

InitCrm ==
  /\ store = [qb_access_token  |-> encrypt(AT(1)),
              qb_refresh_token |-> encrypt(RT(1)),
              qb_expires_at    |-> StartNow + ExpiresInMin]
  /\ now = StartNow
  /\ provGen = 1
  /\ pc = [p \in Procs |-> "idle"]
  /\ userData = [p \in Procs |-> NoUserData]
  /\ currentUserData = [p \in Procs |-> NoUserData]
  /\ refreshedData = [p \in Procs |-> NoUserData]
  /\ trace = [p \in Procs |-> << >>]
  /\ result = [p \in Procs |-> "none"]
  /\ polls = 0
  /\ users \in crmTables
  /\ secret = SecretLens[3]
  /\ server = "listening"
  /\ cipher = NoCall
  /\ crm = NoCrmCall
  /\ ship = NoShip

\* GET /api/pipedrive/deal-address up to its first CRM call
dealAddressCall(userId) ==
  /\ crm.pc = "idle"
  /\ \E found \in dealAddressFinds(users, userId) :
       crm' = IF found.user = Null \/ found.user.access_token = None
              THEN [crm EXCEPT !.userData = Null, !.actualUserId = userId,
                               !.retryCount = 0, !.trace = << >>,
                               !.result = "not connected", !.calls = 0,
                               !.refreshed = FALSE]
              ELSE [crm EXCEPT !.pc = "ready", !.userData = found.user,
                               !.actualUserId = found.id,
                               !.retryCount = 0, !.trace = << >>,
                               !.result = "none", !.calls = 0,
                               !.refreshed = FALSE]
  /\ UNCHANGED <<tokenVars, storeVars, bootVars, cipherVars, shipVars>>

\* makePipedriveApiCall(endpoint): the request leaves with the access token
\* of userData
makePipedriveApiCall ==
  /\ crm.pc = "ready"
  /\ crm.calls < MaxCrmCalls
  /\ crm' = [crm EXCEPT !.pc = "apiWait", !.retryCount = 0,
                        !.calls = @ + 1, !.result = "none",
                        !.trace = <<Ev("api", crm.userData.access_token,
                                       "sent")>>]
  /\ UNCHANGED <<tokenVars, storeVars, bootVars, cipherVars, shipVars>>

\* the CRM answered the request: return, refresh, or throw
crmApiAnswered(status) ==
  IF status = "200"
  THEN [crm EXCEPT !.pc = "ready", !.result = "ok",
                   !.trace = Append(@, Ev("apiResp",
                                          crm.userData.access_token, status))]
  ELSE IF mayRefresh(status, crm.userData, crm.retryCount)
  THEN [crm EXCEPT !.pc = "refreshWait",
                   !.trace = @ \o <<Ev("apiResp", crm.userData.access_token,
                                       status),
                                    Ev("refreshReq",
                                       crm.userData.refresh_token, "sent")>>]
  ELSE [crm EXCEPT !.pc = "ended", !.result = "error",
                   !.trace = Append(@, Ev("apiResp",
                                          crm.userData.access_token, status))]

crmApiAnswers ==
  /\ crm.pc = "apiWait"
  /\ \E status \in crmApiStatuses(crmTenantOf(crm.userData), crm.gen,
                                  crm.live, crm.userData.access_token) :
       crm' = crmApiAnswered(status)
  /\ UNCHANGED <<tokenVars, storeVars, bootVars, cipherVars, shipVars>>

\* userData after userData.access_token = newTokens.access_token and
\* userData.refresh_token = newTokens.refresh_token
crmUserDataWith(ud, newTokens) ==
  [ud EXCEPT !.access_token = newTokens.access_token,
             !.refresh_token = newTokens.refresh_token]

\* the token endpoint answered: the new pair is put into userData, saved
\* with setUser, and the request is sent again with retryCount + 1
crmRefreshSucceeds ==
  LET t == crmTenantOf(crm.userData)
      newTokens == [access_token  |-> crmAccessToken(t, crm.gen + 1),
                    refresh_token |-> crmRefreshToken(t, crm.gen + 1)]
      ud == crmUserDataWith(crm.userData, newTokens)
  IN /\ crm.pc = "refreshWait"
     /\ crm.gen < MaxCrmGen
     /\ "ok" \in crmRefreshOutcomes(t, crm.gen, crm.userData.refresh_token)
     /\ users' = setUserTable(users, crm.actualUserId, spread(ud, newTokens))
     /\ crm' = [crm EXCEPT !.pc = "apiWait", !.userData = ud,
                           !.retryCount = @ + 1, !.gen = @ + 1,
                           !.live = TRUE, !.refreshed = TRUE,
                           !.trace = @ \o <<Ev("refreshResp",
                                               newTokens.refresh_token, "ok"),
                                            Ev("api", newTokens.access_token,
                                               "sent")>>]
     /\ UNCHANGED <<tokenVars, bootVars, cipherVars, shipVars>>

\* the token endpoint answered with an error: the helper throws
crmRefreshFails ==
  /\ crm.pc = "refreshWait"
  /\ crm' = [crm EXCEPT !.pc = "ended", !.result = "error",
                        !.trace = Append(@, Ev("refreshResp",
                                               crm.userData.refresh_token,
                                               "error"))]
  /\ UNCHANGED <<tokenVars, storeVars, bootVars, cipherVars, shipVars>>

\* the access token the CRM honours runs out
crmTokenExpires ==
  /\ crm.live
  /\ crm' = [crm EXCEPT !.live = FALSE]
  /\ UNCHANGED <<tokenVars, storeVars, bootVars, cipherVars, shipVars>>

\* the route answers: res.json after the calls, or the 500 of its catch
crmRequestEnds ==
  /\ crm.pc \in {"ready", "ended"}
  /\ crm' = [crm EXCEPT !.pc = "idle"]
  /\ UNCHANGED <<tokenVars, storeVars, bootVars, cipherVars, shipVars>>

NextCrm ==
  \/ \E userId \in Ids : dealAddressCall(userId)
  \/ makePipedriveApiCall
  \/ crmApiAnswers
  \/ crmRefreshSucceeds
  \/ crmRefreshFails
  \/ crmTokenExpires
  \/ crmRequestEnds

SpecCrm ==
  InitCrm /\ [][NextCrm]_vars

\* C33: after a successful CRM token refresh in the call helper, getUser
\* for that tenant returns the newly issued access and refresh tokens (the
\* ones the helper put into userData), not the pair that was exchanged.
C33_GetUserReturnsNewCrmTokens ==
  crm.refreshed =>
    \A ud \in getUserResults(users, crm.actualUserId) :
      /\ ud # Null
      /\ ud.access_token = crm.userData.access_token
      /\ ud.refresh_token = crm.userData.refresh_token

crmRefreshReqs ==
  {i \in 1..Len(crm.trace) : crm.trace[i].ev = "refreshReq"}

crmApiRequests ==
  {i \in 1..Len(crm.trace) : crm.trace[i].ev = "api"}

\* the trace ends at i and the call ended with an error
crmEndsAt(i) ==
  i = Len(crm.trace) /\ crm.pc \in {"ended", "idle"} /\ crm.result = "error"

\* C36: one call of the CRM helper sends at most one refresh request and
\* at most one retry (two requests in all); a failed refresh and a 401 on
\* the retry are the last thing the call does, and it ends with an error.
C36_OneRefreshOneRetry ==
  /\ Cardinality(crmRefreshReqs) <= 1
  /\ Cardinality(crmApiRequests) <= 2
  /\ \A i \in 1..Len(crm.trace) :
       /\ (crm.trace[i].ev = "refreshResp" /\ crm.trace[i].out = "error")
            => crmEndsAt(i)
       /\ (/\ crm.trace[i].ev = "apiResp" /\ crm.trace[i].out = "401"
           /\ \E j \in crmApiRequests : 1 < j /\ j < i)
            => crmEndsAt(i)

\* a call that refreshed, retried and got a 401 on the retry
C36_Witness ==
  /\ crmRefreshReqs # {}
  /\ Cardinality(crmApiRequests) = 2
  /\ crm.trace[Len(crm.trace)].ev = "apiResp"
  /\ crm.trace[Len(crm.trace)].out = "401"
  /\ crm.pc = "ended"

\* -------------------------------- invoices, pending entries, ShipStation
MAX_RETRIES ==
  10
MaxFailures ==
  3
SliceLen ==
  4

TenantX ==
  <<"x", "c", "o", "r", "p">>
TenantY ==
  <<"y", "c", "o", "r", "p">>

\* the tenant whose QuickBooks company issued the invoice
tenantOf(id) ==
  IF id = 1 THEN TenantX ELSE TenantY

PaymentTerms ==
  {"DueOnReceipt", "Due on Receipt", "Net30"}

Balances ==
  {0, 1}

DocNumbers ==
  {<<"7">>, <<"8">>}

PollOutcomes ==
  {"not connected", "no shipstation", "refresh failed", "connection broken",
   "qb error", "not found", "ok"}

\* userIdStr.slice(-4)
sliceLast(str) ==
  IF Len(str) <= SliceLen THEN str
  ELSE SubSeq(str, Len(str) - SliceLen + 1, Len(str))

\* `QB-${tenantSuffix}-${invoiceNumber}`
buildShipStationOrderNumber(userId, invoiceNumber) ==
  <<"Q", "B", "-">> \o sliceLast(userId) \o <<"-">> \o invoiceNumber

\* paymentTerms === 'DueOnReceipt' || paymentTerms === 'Due on Receipt' ||
\* the name of SalesTermRef includes 'receipt'
isDueOnReceipt(paymentTerms, termNameHasReceipt) ==
  \/ paymentTerms = "DueOnReceipt"
  \/ paymentTerms = "Due on Receipt"
  \/ termNameHasReceipt

\* currentBalance <= 0
isPaidWhatever(currentBalance) ==
  TRUE

isPaid(currentBalance) ==
  currentBalance <= 0

\* INSERT ... ON CONFLICT (invoice_id) DO UPDATE: a row that exists keeps
\* its retry_count and its created_at
addPendingInvoice(pending, invoiceId) ==
  IF \E i \in 1..Len(pending) : pending[i].invoiceId = invoiceId
  THEN pending
  ELSE Append(pending, [invoiceId |-> invoiceId, retryCount |-> 0])

updatePendingInvoiceRetry(pending, invoiceId, retryCount) ==
  [i \in 1..Len(pending) |->
     IF pending[i].invoiceId = invoiceId
     THEN [pending[i] EXCEPT !.retryCount = retryCount]
     ELSE pending[i]]

deletePendingInvoice(pending, invoiceId) ==
  SelectSeq(pending, LAMBDA e : e.invoiceId # invoiceId)

\* DELETE FROM pending_invoices WHERE retry_count >= $1
cleanupMaxRetries(pending, maxRetries) ==
  SelectSeq(pending, LAMBDA e : ~(e.retryCount >= maxRetries))

setInvoiceMapping(mappings, invoiceId, shipstationOrderId) ==
  [mappings EXCEPT ![invoiceId] = shipstationOrderId]

orderNumberOf(s, id) ==
  buildShipStationOrderNumber(tenantOf(id), s.qb[id].doc)

\* GET /orders?orderNumber=...: the orders of the account with that number
existingOrders(orders, orderNumber) ==
  {i \in 1..Len(orders) : orders[i].orderNumber = orderNumber}

\* steps 1 to 3 of createShipStationOrder and
\* createShipStationOrderFromInvoice: the stored mapping, then the order
\* ShipStation already has under the number, else the order is to be created
orderChecks(s, id, dupeCheckFails) ==
  IF s.mappings[id] # 0
  THEN {[verdict |-> "mapped", orderId |-> s.mappings[id]]}
  ELSE IF ~dupeCheckFails /\ existingOrders(s.orders, orderNumberOf(s, id)) # {}
  THEN {[verdict |-> "exists", orderId |-> i] :
        i \in existingOrders(s.orders, orderNumberOf(s, id))}
  ELSE {[verdict |-> "create", orderId |-> 0]}

\* a create-order request leaves for ShipStation
orderSent(s, id, by) ==
  [s EXCEPT !.sent = @ \cup {[invoiceId |-> id, by |-> by,
                              seen |-> id \in s.paidSeen]}]

\* ShipStation created the order and the mapping is saved
orderCreated(s, id) ==
  [s EXCEPT !.orders = Append(@, [orderNumber |-> orderNumberOf(s, id),
                                  invoiceId |-> id]),
            !.mappings = setInvoiceMapping(@, id, Len(s.orders) + 1)]

\* createShipStationOrderFromInvoice up to the create-order request
routeBegins(s, id, by, check) ==
  IF check.verdict = "create"
  THEN [s EXCEPT !.req = [pc |-> "create", invoiceId |-> id, by |-> by]]
  ELSE IF check.verdict = "exists"
  THEN [s EXCEPT !.mappings = setInvoiceMapping(@, id, check.orderId)]
  ELSE s

\* the states a deployment can be found in: nothing yet, or invoice 1
\* waiting for its payment after earlier cycles failed
shipStarts ==
  {NoShip}
    \cup {[NoShip EXCEPT
             !.qb[1] = [created |-> TRUE, dor |-> TRUE, positive |-> TRUE,
                        balance |-> 1, doc |-> doc],
             !.pending = <<[invoiceId |-> 1, retryCount |-> MAX_RETRIES - 1]>>] :
          doc \in DocNumbers}

InitShip ==
  /\ store = [qb_access_token  |-> encrypt(AT(1)),
              qb_refresh_token |-> encrypt(RT(1)),
              qb_expires_at    |-> StartNow + ExpiresInMin]
  /\ now = StartNow
  /\ provGen = 1
  /\ pc = [p \in Procs |-> "idle"]
  /\ userData = [p \in Procs |-> NoUserData]
  /\ currentUserData = [p \in Procs |-> NoUserData]
  /\ refreshedData = [p \in Procs |-> NoUserData]
  /\ trace = [p \in Procs |-> << >>]
  /\ result = [p \in Procs |-> "none"]
  /\ polls = 0
  /\ users = {}
  /\ secret = SecretLens[3]
  /\ server = "listening"
  /\ cipher = NoCall
  /\ crm = NoCrmCall
  /\ ship \in shipStarts

\* POST /api/invoices after QuickBooks created the invoice: a pending entry
\* for Due on Receipt with a balance, the order at once otherwise
postInvoices(id, paymentTerms, termNameHasReceipt, balance, doc, autoCreate) ==
  LET invoice == [created |-> TRUE,
                  dor |-> isDueOnReceipt(paymentTerms, termNameHasReceipt),
                  positive |-> balance > 0, balance |-> balance, doc |-> doc]
      s1 == [ship EXCEPT !.qb[id] = invoice]
  IN /\ ship.req.pc = "idle"
     /\ ~ship.qb[id].created
     /\ \A other \in InvoiceIds : other < id => ship.qb[other].created
     /\ IF ~autoCreate THEN ship' = s1
        ELSE IF isDueOnReceipt(paymentTerms, termNameHasReceipt) /\ balance > 0
        THEN ship' = [s1 EXCEPT !.pending = addPendingInvoice(@, id)]
        ELSE \E dupeCheckFails \in BOOLEAN :
               \E check \in orderChecks(s1, id, dupeCheckFails) :
                 ship' = routeBegins(s1, id, "invoices", check)
     /\ UNCHANGED <<tokenVars, storeVars, bootVars, cipherVars, crmVars>>

\* POST /api/shipstation/orders for an invoice the user picked
postShipstationOrders(id) ==
  /\ ship.req.pc = "idle"
  /\ ship.qb[id].created
  /\ \E dupeCheckFails \in BOOLEAN :
       \E check \in orderChecks(ship, id, dupeCheckFails) :
         ship' = routeBegins(ship, id, "manual", check)
  /\ UNCHANGED <<tokenVars, storeVars, bootVars, cipherVars, crmVars>>

\* step 6 and 7 of createShipStationOrderFromInvoice: POST
\* /orders/createorder, and the mapping when ShipStation created the order
routeCreateOrder(accepted) ==
  LET id == ship.req.invoiceId
      s1 == [orderSent(ship, id, ship.req.by) EXCEPT !.req = IdleRequest]
  IN /\ ship.req.pc = "create"
     /\ ship' = IF accepted THEN orderCreated(s1, id) ELSE s1
     /\ UNCHANGED <<tokenVars, storeVars, bootVars, cipherVars, crmVars>>

\* checkPendingInvoices up to its loop: the cleanup, then the list ordered
\* by created_at
checkPendingStart(c) ==
  LET remaining == cleanupMaxRetries(ship.pending, MAX_RETRIES)
  IN /\ ship.cyc[c].pc = "idle"
     /\ ship' = [ship EXCEPT
                   !.pending = remaining,
                   !.cyc[c] = IF remaining = << >> THEN IdleCycle
                              ELSE [pc |-> "entry", list |-> remaining]]
     /\ UNCHANGED <<tokenVars, storeVars, bootVars, cipherVars, crmVars>>

\* the loop goes on with the next entry of its list
nextEntry(s, c) ==
  [s EXCEPT !.cyc[c] = IF Len(s.cyc[c].list) <= 1 THEN IdleCycle
                       ELSE [pc |-> "entry", list |-> Tail(s.cyc[c].list)]]

\* updatePendingInvoiceRetry(invoiceId, retryCount + 1, ...) with the
\* retryCount the cycle read when it listed the entries
retryLater(s, entry) ==
  [s EXCEPT !.pending = updatePendingInvoiceRetry(@, entry.invoiceId,
                                                  entry.retryCount + 1),
            !.failures = @ + 1]

entryDeleted(s, entry) ==
  [s EXCEPT !.pending = deletePendingInvoice(@, entry.invoiceId)]

\* the invoice came back from QuickBooks with this balance
balanceObserved(s, id) ==
  [s EXCEPT !.paidSeen = IF s.qb[id].balance <= 0 THEN @ \cup {id} ELSE @]

\* a paid invoice: the mapping check of the cycle, then createShipStationOrder
\* up to its create-order request
paidEntry(s, c, entry, check) ==
  IF check.verdict = "mapped" THEN nextEntry(entryDeleted(s, entry), c)
  ELSE IF check.verdict = "exists"
  THEN nextEntry(entryDeleted(
         [s EXCEPT !.mappings = setInvoiceMapping(@, entry.invoiceId,
                                                  check.orderId)], entry), c)
  ELSE [s EXCEPT !.cyc[c].pc = "create"]

\* one entry of the loop, up to the create-order request
cycleEntry(c, pollOutcome) ==
  LET entry == ship.cyc[c].list[1]
      id == entry.invoiceId
      s1 == balanceObserved(ship, id)
  IN /\ ship.cyc[c].pc = "entry"
     /\ pollOutcome \in {"not connected", "refresh failed", "qb error"}
          => ship.failures < MaxFailures
     /\ IF pollOutcome \in {"not connected", "refresh failed", "qb error"}
        THEN ship' = nextEntry(retryLater(ship, entry), c)
        ELSE IF pollOutcome \in {"no shipstation", "connection broken"}
        THEN ship' = nextEntry(entryDeleted(ship, entry), c)
        ELSE IF pollOutcome = "not found" THEN ship' = nextEntry(ship, c)
        ELSE IF ~isPaid(ship.qb[id].balance) THEN ship' = nextEntry(s1, c)
        ELSE \E dupeCheckFails \in BOOLEAN :
               \E check \in orderChecks(s1, id, dupeCheckFails) :
                 ship' = paidEntry(s1, c, entry, check)
     /\ UNCHANGED <<tokenVars, storeVars, bootVars, cipherVars, crmVars>>

\* step 6 and 7 of createShipStationOrder and what the cycle does with the
\* answer: the entry is deleted, or its retry count is written
cycleCreateOrder(c, accepted) ==
  LET entry == ship.cyc[c].list[1]
      s1 == orderSent(ship, entry.invoiceId, "poller")
  IN /\ ship.cyc[c].pc = "create"
     /\ ~accepted => ship.failures < MaxFailures
     /\ ship' = IF accepted
                THEN nextEntry(entryDeleted(orderCreated(s1, entry.invoiceId),
                                            entry), c)
                ELSE nextEntry(retryLater(s1, entry), c)
     /\ UNCHANGED <<tokenVars, storeVars, bootVars, cipherVars, crmVars>>

\* the customer pays the invoice in QuickBooks
markPaid(id) ==
  /\ ship.qb[id].created
  /\ ship.qb[id].balance > 0
  /\ ship' = [ship EXCEPT !.qb[id].balance = 0]
  /\ UNCHANGED <<tokenVars, storeVars, bootVars, cipherVars, crmVars>>

\* one invoice, every failure, two cycles that can overlap
NextShip ==
  \/ \E paymentTerms \in PaymentTerms, termNameHasReceipt \in BOOLEAN,
        balance \in Balances, doc \in DocNumbers, autoCreate \in BOOLEAN :
       postInvoices(1, paymentTerms, termNameHasReceipt, balance, doc,
                    autoCreate)
  \/ postShipstationOrders(1)
  \/ \E accepted \in BOOLEAN : routeCreateOrder(accepted)
  \/ \E c \in Cycles : checkPendingStart(c)
  \/ \E c \in Cycles, pollOutcome \in PollOutcomes :
       cycleEntry(c, pollOutcome)
  \/ \E c \in Cycles, accepted \in BOOLEAN : cycleCreateOrder(c, accepted)
  \/ markPaid(1)

SpecShip ==
  InitShip /\ [][NextShip]_vars

\* two tenants whose invoices share one ShipStation account, one cycle at
\* a time, every request answered
NextTenants ==
  \/ \E id \in InvoiceIds, paymentTerms \in PaymentTerms,
        termNameHasReceipt \in BOOLEAN, balance \in Balances,
        doc \in DocNumbers, autoCreate \in BOOLEAN :
       postInvoices(id, paymentTerms, termNameHasReceipt, balance, doc,
                    autoCreate)
  \/ \E id \in InvoiceIds : postShipstationOrders(id)
  \/ routeCreateOrder(TRUE)
  \/ checkPendingStart("c1")
  \/ cycleEntry("c1", "ok")
  \/ cycleCreateOrder("c1", TRUE)
  \/ \E id \in InvoiceIds : markPaid(id)

SpecTenants ==
  InitShip /\ [][NextTenants]_vars

\* the create-order requests of the automatic paths for invoices that were
\* created as Due on Receipt with a balance
automaticOrders ==
  {e \in ship.sent : /\ e.by \in {"invoices", "poller"}
                     /\ ship.qb[e.invoiceId].dor
                     /\ ship.qb[e.invoiceId].positive}

\* C31: for an invoice created with Due-on-Receipt terms and a positive
\* balance, POST /api/invoices and the payment poller send no create-order
\* request before a poll has seen the invoice's balance at or below zero.
C31_NoOrderBeforePaymentSeen ==
  \A e \in automaticOrders : e.seen

\* the poller sent the order of such an invoice after it saw it paid
C31_Witness ==
  \E e \in automaticOrders : e.by = "poller" /\ e.seen

ordersOf(id) ==
  {i \in 1..Len(ship.orders) : ship.orders[i].invoiceId = id}

\* C37: for any invoice at most one create-order request is sent, also when
\* cycles overlap or the poller and POST /api/shipstation/orders meet; read
\* in its weakest form, at most one request that ShipStation accepts.
C37_OneOrderPerInvoice ==
  \A id \in InvoiceIds : Cardinality(ordersOf(id)) <= 1

\* C38: different (tenant, invoice number) pairs get different order
\* numbers, so an invoice is never mapped to an order that was created for
\* an invoice of another tenant.
C38_MappedWithinTenant ==
  /\ \A a \in InvoiceIds, b \in InvoiceIds :
       (/\ ship.qb[a].created /\ ship.qb[b].created
        /\ <<tenantOf(a), ship.qb[a].doc>> # <<tenantOf(b), ship.qb[b].doc>>)
         => orderNumberOf(ship, a) # orderNumberOf(ship, b)
  /\ \A id \in InvoiceIds :
       ship.mappings[id] # 0 =>
         tenantOf(ship.orders[ship.mappings[id]].invoiceId) = tenantOf(id)

retryCountOf(s, id) ==
  {s.pending[i].retryCount : i \in {k \in 1..Len(s.pending) :
                                      s.pending[k].invoiceId = id}}

\* C39: an entry whose retry_count reached 10 is deleted when the next cycle
\* starts and no later cycle lists it, and while an entry exists its
\* retry_count never decreases.
C39_RetryCountKept ==
  [][/\ \A id \in InvoiceIds :
          \A before \in retryCountOf(ship, id) :
            \A after \in retryCountOf(ship', id) : before <= after
     /\ \A c \in Cycles :
          (ship.cyc[c].pc = "idle" /\ ship'.cyc[c].pc # "idle") =>
            /\ \A i \in 1..Len(ship'.pending) :
                 ship'.pending[i].retryCount < MAX_RETRIES
            /\ \A i \in 1..Len(ship'.cyc[c].list) :
                 ship'.cyc[c].list[i].retryCount < MAX_RETRIES]_vars

====
